---- MODULE Spec2Model ----
(***************************************************************************)
(* Model of quri_parts.core.utils.recording: recordable functions,        *)
(* Recorder, RecordGroup, RecordSet, RecordSession and the process-wide   *)
(* list of active sessions.                                               *)
(*                                                                        *)
(* Objects are modelled by reference: RecordGroup objects live in `heap`  *)
(* (the index is the object's identity); a session's history and group    *)
(* stack hold heap indices.  Every thread of control has a stack of       *)
(* frames: a `with session.start():` block or a call of a recordable      *)
(* function whose body is running.  An exception in flight is `exc`.      *)
(***************************************************************************)
EXTENDS Integers, Sequences, FiniteSets, TLC

\* ------------------------------------------------------------- bounds
MaxGroups == 4
MaxDepth == 4
MaxEntries == 2
MaxActive == 2
MaxSteps == 6
MaxThreadSteps == 5
MaxConfiguredSteps == 4

\* ---------------------------------------------------------- constants
INFO == 20
DEBUG == 10
RecordLevel == {DEBUG, INFO}

\* "fid not in self._levels"
NoLevel == 0
\* no exception in flight
None == "none"
\* threading.local() attribute that was never assigned in this thread
Unset == -1
\* the body of the call did not run
NotRun == <<"notrun">>

Sessions == {"s1", "s2"}
FuncIds == {"A", "B"}
MainThread == "main"
Threads == {"main", "worker"}
\* (key, value) pairs handed to Recorder.record
RecData == {<<"x", 1>>, <<"y", 2>>}
\* values a body returns
RetVals == {1, 2}
\* failures a body raises
UserFailures == {"E"}
\* "fid not in _recorders"
NoHandle == 0
\* loggers a client attaches, each with the level its isEnabledFor accepts
\* from; their per-module child loggers are left as the logging module
\* creates them (level not set, propagating to the parent)
Loggers == {"L1", "L2"}
LoggerLevel == [k \in Loggers |-> IF k = "L1" THEN DEBUG ELSE INFO]

VARIABLES
  active_sessions,   \* _active_sessions: sequence of sessions
  levels,            \* RecordSession._levels, per session
  history,           \* RecordSession._record_set._history, per session: heap indices
  group_stack,       \* RecordSession._group_stack, per session: heap indices
  heap,              \* the RecordGroup objects ever created
  group_id,          \* _group_id.current, per thread
  frames,            \* per thread: the blocks and calls control is inside
  exc,               \* per thread: the exception in flight
  result,            \* per thread: outcome of the last finished wrapper call
  recorders,         \* _recorders: identity -> Recorder object (NoHandle: absent)
  created,           \* per identity: Recorder objects constructed so far
  pending,           \* per thread: identity whose lookup in _recorders missed
  loggers,           \* RecordSession._loggers, per session
  emitted,           \* per logger: the messages logged to it
  answer,            \* what the last Recorder.is_enabled_for call returned
  formats,           \* per session: messages RecordSession._log has formatted
  views,             \* the iterators get_history has returned
  input,             \* the arguments of a call of a function without state
  output,            \* what that call returned or raised
  script,            \* the operations of a scripted client (<<>>: any client)
  steps              \* operations done so far

vars == <<active_sessions, levels, history, group_stack, heap, group_id,
          frames, exc, result, recorders, created, pending, loggers, emitted,
          answer, formats, views, input, output, script, steps>>

\* What the recorder does not touch
queries == <<views, input, output>>

\* ------------------------------------------------------------ helpers
Last(s) == s[Len(s)]
Front(s) == SubSeq(s, 1, Len(s) - 1)
Range(s) == {s[i] : i \in 1..Len(s)}

\* RecordEntry(level, fid, (key, value))
RecordEntry(level, fid, data) == [level |-> level, func_id |-> fid, data |-> data]

\* The part of the program's state the loops over _active_sessions work on.
\* `pushed` lists the (session, group) pairs an entry loop pushed, `fail`
\* is the exception that ended a loop early.
Store == [heap |-> heap, history |-> history, group_stack |-> group_stack,
          loggers |-> loggers, emitted |-> emitted, formats |-> formats,
          cur |-> Unset, new |-> 0, pushed |-> <<>>, fail |-> None]

\* A session's history as the caller of get_records sees it: the groups,
\* in order, each with its identity and its contents.
HistoryView(s) == [i \in 1..Len(history[s]) |-> <<history[s][i], heap[history[s][i]]>>]

\* ------------------------------------------------- RecordSession, RecordSet
IsEnabledForStrict(lv, level, fid) == lv[fid] # NoLevel /\ level > lv[fid]

IsEnabledForUnset(lv, level, fid) == level >= lv[fid]

\* RecordSession.is_enabled_for
IsEnabledFor(lv, level, fid) == lv[fid] # NoLevel /\ level >= lv[fid]

AddGroupSameId(s, fid, st) ==
  IF st.cur = Unset
  THEN [st EXCEPT !.fail = "AttributeError"]
  ELSE LET g == [func_id |-> fid, entries |-> <<>>, id |-> st.cur]
           n == Len(st.heap) + 1
       IN [st EXCEPT !.heap = Append(@, g),
                     !.history[s] = Append(@, n),
                     !.new = n]

AddGroupInFront(s, fid, st) ==
  IF st.cur = Unset
  THEN [st EXCEPT !.fail = "AttributeError"]
  ELSE LET g == [func_id |-> fid, entries |-> <<>>, id |-> st.cur]
           n == Len(st.heap) + 1
       IN [st EXCEPT !.heap = Append(@, g),
                     !.cur = @ + 1,
                     !.history[s] = <<n>> \o @,
                     !.new = n]

\* RecordSet.add_group: RecordGroup(fid, []) takes its id from
\* _next_group_id, which reads _group_id.current of the calling thread.
AddGroup(s, fid, st) ==
  IF st.cur = Unset
  THEN [st EXCEPT !.fail = "AttributeError"]
  ELSE LET g == [func_id |-> fid, entries |-> <<>>, id |-> st.cur]
           n == Len(st.heap) + 1
       IN [st EXCEPT !.heap = Append(@, g),
                     !.cur = @ + 1,
                     !.history[s] = Append(@, n),
                     !.new = n]

\* RecordSet.remove_last_group
RemoveLastGroup(s, st) ==
  IF st.history[s] = <<>>
  THEN [st EXCEPT !.fail = "IndexError"]
  ELSE [st EXCEPT !.history[s] = Front(@)]

EnterFuncShared(s, fid, st) ==
  IF st.pushed = <<>>
  THEN LET r == AddGroup(s, fid, st)
       IN IF r.fail # None THEN r
          ELSE [r EXCEPT !.group_stack[s] = Append(@, r.new),
                         !.pushed = Append(@, <<s, r.new>>)]
  ELSE [st EXCEPT !.history[s] = Append(@, st.pushed[1][2]),
                  !.group_stack[s] = Append(@, st.pushed[1][2]),
                  !.pushed = Append(@, <<s, st.pushed[1][2]>>)]

\* RecordSession._enter_func
EnterFunc(s, fid, st) ==
  LET r == AddGroup(s, fid, st)
  IN IF r.fail # None THEN r
     ELSE [r EXCEPT !.group_stack[s] = Append(@, r.new),
                    !.pushed = Append(@, <<s, r.new>>)]

ExitFuncInverted(s, fid, st) ==
  IF st.group_stack[s] = <<>>
  THEN [st EXCEPT !.fail = "IndexError"]
  ELSE LET g == Last(st.group_stack[s])
           popped == [st EXCEPT !.group_stack[s] = Front(@)]
       IN IF st.heap[g].entries # <<>>
          THEN RemoveLastGroup(s, popped)
          ELSE popped

ExitFuncKeeping(s, fid, st) == st

\* RecordSession._exit_func
ExitFunc(s, fid, st) ==
  IF st.group_stack[s] = <<>>
  THEN [st EXCEPT !.fail = "IndexError"]
  ELSE LET g == Last(st.group_stack[s])
           popped == [st EXCEPT !.group_stack[s] = Front(@)]
       IN IF st.heap[g].entries = <<>>
          THEN RemoveLastGroup(s, popped)
          ELSE popped

\* The text RecordSession._log formats for an entry
Format(entry) == [func |-> entry.func_id, data |-> entry.data]

\* msg = "": nothing was formatted yet
NoMsg == [func |-> None, data |-> <<>>]

\* The message one logger gets for an entry: level, text and the
\* record_group extra
LogMessage(level, msg, group) ==
  [level |-> level, func |-> msg.func, data |-> msg.data, record_group |-> group.id]

LogUnfiltered(s, entry, group, st) ==
  [st EXCEPT !.emitted =
     [k \in Loggers |->
        IF k \in st.loggers[s]
        THEN Append(@[k], LogMessage(entry.level, Format(entry), group))
        ELSE @[k]]]

FormatAlways(msg) == TRUE

\* `if not msg`: the text has still to be formatted
NeedsFormat(msg) == msg = NoMsg

\* The loop of RecordSession._log over the loggers ks still to visit:
\* a logger that is not enabled for the level is skipped, the first one
\* that is enabled has the text formatted, every enabled one logs it
RECURSIVE LogLoop(_, _, _, _, _, _)
LogLoop(ks, s, entry, group, msg, st) ==
  IF ks = {}
  THEN st
  ELSE LET k == CHOOSE x \in ks : TRUE
           rest == ks \ {k}
       IN IF entry.level < LoggerLevel[k]
          THEN LogLoop(rest, s, entry, group, msg, st)
          ELSE LET text == IF NeedsFormat(msg) THEN Format(entry) ELSE msg
                   formatted == IF NeedsFormat(msg)
                                THEN [st EXCEPT !.formats[s] = @ + 1]
                                ELSE st
                   logged == [formatted EXCEPT !.emitted[k] =
                                Append(@, LogMessage(entry.level, text, group))]
               IN LogLoop(rest, s, entry, group, text, logged)

\* RecordSession._log: every attached logger that is enabled for the level
\* logs the message once
Log(s, entry, group, st) == LogLoop(st.loggers[s], s, entry, group, NoMsg, st)

HandlerAllOpen(s, level, fid, data, st) ==
  IF st.group_stack[s] = <<>>
  THEN [st EXCEPT !.fail = "IndexError"]
  ELSE LET g == Last(st.group_stack[s])
           entry == RecordEntry(level, fid, data)
           added == [st EXCEPT !.heap =
                       [i \in 1..Len(st.heap) |->
                          IF i \in Range(st.group_stack[s])
                          THEN [st.heap[i] EXCEPT !.entries = Append(@, entry)]
                          ELSE st.heap[i]]]
       IN Log(s, entry, added.heap[g], added)

HandlerPrepending(s, level, fid, data, st) ==
  IF st.group_stack[s] = <<>>
  THEN [st EXCEPT !.fail = "IndexError"]
  ELSE LET g == Last(st.group_stack[s])
           entry == RecordEntry(level, fid, data)
           added == [st EXCEPT !.heap[g].entries = <<entry>> \o @]
       IN Log(s, entry, added.heap[g], added)

\* RecordSession.handler
Handler(s, level, fid, data, st) ==
  IF st.group_stack[s] = <<>>
  THEN [st EXCEPT !.fail = "IndexError"]
  ELSE LET g == Last(st.group_stack[s])
           entry == RecordEntry(level, fid, data)
           added == [st EXCEPT !.heap[g].entries = Append(@, entry)]
       IN Log(s, entry, added.heap[g], added)

\* ------------------------------------------------------------ Recorder
EnterAllFirstOnly(ss, fid, st) ==
  IF ss = <<>> \/ st.fail # None THEN st
  ELSE EnterFunc(Head(ss), fid, st)

\* Recorder.start_func, the loop before the yield
RECURSIVE EnterAll(_, _, _)
EnterAll(ss, fid, st) ==
  IF ss = <<>> \/ st.fail # None THEN st
  ELSE EnterAll(Tail(ss), fid, EnterFunc(Head(ss), fid, st))

\* Recorder.start_func, the loop after the yield
RECURSIVE ExitAll(_, _, _)
ExitAll(ss, fid, st) ==
  IF ss = <<>> \/ st.fail # None THEN st
  ELSE ExitAll(Tail(ss), fid, ExitFunc(Head(ss), fid, st))

\* Recorder.start_func when the body raised: contextmanager throws the
\* exception into the generator at the yield, nothing there catches it,
\* so the loop after the yield does not run.
ExitOnFailure(ss, fid, st) == st

RECURSIVE RecordFirstOnly(_, _, _, _, _, _)
RecordFirstOnly(ss, lv, level, fid, data, st) ==
  IF ss = <<>> \/ st.fail # None THEN st
  ELSE IF IsEnabledFor(lv[Head(ss)], level, fid)
       THEN Handler(Head(ss), level, fid, data, st)
       ELSE RecordFirstOnly(Tail(ss), lv, level, fid, data, st)

RECURSIVE RecordAllShared(_, _, _, _, _, _)
RecordAllShared(ss, lv, level, fid, data, st) ==
  IF ss = <<>> \/ st.fail # None THEN st
  ELSE RecordAllShared(Tail(ss), lv, level, fid, data,
                       IF \E s \in Sessions : IsEnabledFor(lv[s], level, fid)
                       THEN Handler(Head(ss), level, fid, data, st)
                       ELSE st)

\* Recorder.record
RECURSIVE RecordAll(_, _, _, _, _, _)
RecordAll(ss, lv, level, fid, data, st) ==
  IF ss = <<>> \/ st.fail # None THEN st
  ELSE RecordAll(Tail(ss), lv, level, fid, data,
                 IF IsEnabledFor(lv[Head(ss)], level, fid)
                 THEN Handler(Head(ss), level, fid, data, st)
                 ELSE st)

RECURSIVE IsEnabledForEvery(_, _, _, _)
IsEnabledForEvery(ss, lv, level, fid) ==
  IF ss = <<>> THEN TRUE
  ELSE IF ~IsEnabledFor(lv[Head(ss)], level, fid) THEN FALSE
  ELSE IsEnabledForEvery(Tail(ss), lv, level, fid)

\* Recorder.is_enabled_for: any(session.is_enabled_for(...))
RECURSIVE IsEnabledForAny(_, _, _, _)
IsEnabledForAny(ss, lv, level, fid) ==
  IF ss = <<>> THEN FALSE
  ELSE IF IsEnabledFor(lv[Head(ss)], level, fid) THEN TRUE
  ELSE IsEnabledForAny(Tail(ss), lv, level, fid)

\* _get_recorder run without interruption
GetRecorder(fid, rec, made) ==
  IF rec[fid] # NoHandle
  THEN [recorders |-> rec, created |-> made, handle |-> rec[fid]]
  ELSE [recorders |-> [rec EXCEPT ![fid] = made[fid] + 1],
        created |-> [made EXCEPT ![fid] = @ + 1],
        handle |-> made[fid] + 1]

\* recordable.wrapper: what the caller of the wrapped function observes,
\* given what the body did and how start_func's exit went.
WrapperOutcome(body, fail) ==
  IF body[1] = "raise" THEN body
  ELSE IF fail # None THEN <<"raise", fail>>
  ELSE body

\* -------------------------------------------------------------- frames
\* A session frame remembers the active list at the entry of the block
SessionFrame(s) ==
  [kind |-> "session", who |-> s, pushed |-> <<>>, hist0 |-> <<>>, admits |-> {},
   handle |-> NoHandle, act0 |-> active_sessions]

\* A call frame remembers what its entry pushed, the histories at entry
\* and the sessions that admitted a record while the call was running.
CallFrame(f, pushed, h) ==
  [kind |-> "call", who |-> f, pushed |-> pushed,
   hist0 |-> [s \in Sessions |-> HistoryView(s)], admits |-> {}, handle |-> h,
   act0 |-> active_sessions]

Top(t) == Last(frames[t])
InCall(t) == frames[t] # <<>> /\ Top(t).kind = "call"
InSession(t) == frames[t] # <<>> /\ Top(t).kind = "session"
\* Control is in the body of a call, possibly inside `with` blocks of that body
InBody(t) == \E i \in 1..Len(frames[t]) : frames[t][i].kind = "call"
\* The innermost call whose body is running
CurrentCall(t) ==
  frames[t][CHOOSE i \in 1..Len(frames[t]) :
              /\ frames[t][i].kind = "call"
              /\ \A j \in (i + 1)..Len(frames[t]) : frames[t][j].kind # "call"]
NoResult == [body |-> NotRun, seen |-> NotRun, own |-> None]
\* Recorder.is_enabled_for was not called yet
NoAnswer == [func |-> None, level |-> NoLevel, value |-> FALSE]

\* No function without state was called
NoInput == [call |-> None]
NoOutput == [kind |-> None]

\* The recorder after the module is loaded and the sessions are constructed
Loaded ==
  /\ active_sessions = <<>>
  /\ levels = [s \in Sessions |-> [f \in FuncIds |-> NoLevel]]
  /\ history = [s \in Sessions |-> <<>>]
  /\ group_stack = [s \in Sessions |-> <<>>]
  /\ heap = <<>>
  /\ group_id = [t \in Threads |-> IF t = MainThread THEN 0 ELSE Unset]
  /\ frames = [t \in Threads |-> <<>>]
  /\ exc = [t \in Threads |-> None]
  /\ result = [t \in Threads |-> NoResult]
  /\ recorders = [f \in FuncIds |-> NoHandle]
  /\ created = [f \in FuncIds |-> 0]
  /\ pending = [t \in Threads |-> None]
  /\ loggers = [s \in Sessions |-> {}]
  /\ emitted = [k \in Loggers |-> <<>>]
  /\ answer = NoAnswer
  /\ formats = [s \in Sessions |-> 0]
  /\ views = <<>>
  /\ steps = 0

\* The state after the module is loaded and the sessions are constructed
Fresh == Loaded /\ input = NoInput /\ output = NoOutput

\* ------------------------------------------------------------- actions
SetLevelOnce(t, s, f, l) ==
  /\ exc[t] = None
  /\ levels' = [levels EXCEPT ![s][f] = IF @ = NoLevel THEN l ELSE @]
  /\ UNCHANGED <<active_sessions, history, group_stack, heap, group_id,
                 frames, exc, result>>
  /\ UNCHANGED <<recorders, created, pending, loggers, emitted, answer, formats, queries>>

SetLevelAllSessions(t, s, f, l) ==
  /\ exc[t] = None
  /\ levels' = [r \in Sessions |-> [levels[r] EXCEPT ![f] = l]]
  /\ UNCHANGED <<active_sessions, history, group_stack, heap, group_id,
                 frames, exc, result>>
  /\ UNCHANGED <<recorders, created, pending, loggers, emitted, answer, formats, queries>>

\* RecordSession.set_level
SetLevel(t, s, f, l) ==
  /\ exc[t] = None
  /\ levels' = [levels EXCEPT ![s][f] = l]
  /\ UNCHANGED <<active_sessions, history, group_stack, heap, group_id,
                 frames, exc, result>>
  /\ UNCHANGED <<recorders, created, pending, loggers, emitted, answer, formats, queries>>

\* RecordSession.start, up to the yield
SessionStart(t, s) ==
  /\ exc[t] = None
  /\ Len(frames[t]) < MaxDepth
  /\ Len(active_sessions) < MaxActive
  /\ active_sessions' = Append(active_sessions, s)
  /\ frames' = [frames EXCEPT ![t] = Append(@, SessionFrame(s))]
  /\ UNCHANGED <<levels, history, group_stack, heap, group_id, exc, result>>
  /\ UNCHANGED <<recorders, created, pending, loggers, emitted, answer, formats, queries>>

SessionEndClearing(t) ==
  /\ exc[t] = None
  /\ InSession(t)
  /\ frames' = [frames EXCEPT ![t] = Front(@)]
  /\ IF active_sessions = <<>>
     THEN /\ exc' = [exc EXCEPT ![t] = "IndexError"]
          /\ UNCHANGED <<active_sessions, history>>
     ELSE /\ active_sessions' = Front(active_sessions)
          /\ history' = [history EXCEPT ![Last(active_sessions)] = <<>>]
          /\ UNCHANGED exc
  /\ UNCHANGED <<levels, group_stack, heap, group_id, result>>
  /\ UNCHANGED <<recorders, created, pending, loggers, emitted, answer, formats, queries>>

\* RecordSession.start, after the yield: the block ended normally
SessionEnd(t) ==
  /\ exc[t] = None
  /\ InSession(t)
  /\ frames' = [frames EXCEPT ![t] = Front(@)]
  /\ IF active_sessions = <<>>
     THEN /\ exc' = [exc EXCEPT ![t] = "IndexError"]
          /\ UNCHANGED active_sessions
     ELSE /\ active_sessions' = Front(active_sessions)
          /\ UNCHANGED exc
  /\ UNCHANGED <<levels, history, group_stack, heap, group_id, result>>
  /\ UNCHANGED <<recorders, created, pending, loggers, emitted, answer, formats, queries>>

\* recordable.wrapper from `with recorder.start_func()` to the call of f:
\* start_func's entry loop, run by thread t holding the Recorder object h
EnterWith(t, f, h) ==
  /\ exc[t] = None
  /\ Len(frames[t]) < MaxDepth
  /\ Len(heap) + Len(active_sessions) <= MaxGroups
  /\ LET st == EnterAll(active_sessions, f, [Store EXCEPT !.cur = group_id[t]])
     IN /\ heap' = st.heap
        /\ history' = st.history
        /\ group_stack' = st.group_stack
        /\ group_id' = [group_id EXCEPT ![t] = st.cur]
        /\ IF st.fail # None
           THEN /\ exc' = [exc EXCEPT ![t] = st.fail]
                /\ result' = [result EXCEPT ![t] =
                                [body |-> NotRun, seen |-> <<"raise", st.fail>>,
                                 own |-> st.fail]]
                /\ UNCHANGED frames
           ELSE /\ frames' = [frames EXCEPT ![t] = Append(@, CallFrame(f, st.pushed, h))]
                /\ UNCHANGED <<exc, result>>
  /\ UNCHANGED <<active_sessions, levels, loggers, emitted, answer, formats, queries>>

\* recordable.wrapper up to the call of f, _get_recorder not interrupted
CallEnter(t, f) ==
  /\ pending[t] = None
  /\ LET r == GetRecorder(f, recorders, created)
     IN /\ recorders' = r.recorders
        /\ created' = r.created
        /\ EnterWith(t, f, r.handle)
  /\ UNCHANGED pending

\* _get_recorder, `fid in _recorders` is false: the thread goes on to
\* construct a Recorder
LookupMiss(t, f) ==
  /\ exc[t] = None
  /\ pending[t] = None
  /\ recorders[f] = NoHandle
  /\ pending' = [pending EXCEPT ![t] = f]
  /\ UNCHANGED <<active_sessions, levels, history, group_stack, heap, group_id,
                 frames, exc, result, recorders, created, loggers, emitted, answer,
                 formats, queries>>

\* _get_recorder after the miss: Recorder(fid) is constructed and stored in
\* _recorders, whatever is there by now; the wrapper goes on with it
CallEnterAfterMiss(t) ==
  /\ pending[t] # None
  /\ created' = [created EXCEPT ![pending[t]] = @ + 1]
  /\ recorders' = [recorders EXCEPT ![pending[t]] = created[pending[t]] + 1]
  /\ pending' = [pending EXCEPT ![t] = None]
  /\ EnterWith(t, pending[t], created[pending[t]] + 1)

\* The sessions in which one record call is admitted
Admitting(level, fid) ==
  {s \in Range(active_sessions) : IsEnabledFor(levels[s], level, fid)}

\* The identities whose handle the running code was given: those of the
\* calls in flight on this thread
HandlesInScope(t) == {frames[t][i].who : i \in {j \in 1..Len(frames[t]) : frames[t][j].kind = "call"}}

\* Recorder.record called on the handle of fid by code running inside a
\* call of fid (its body, or the body of a call it made)
Record(t, fid, level, data) ==
  /\ exc[t] = None
  /\ fid \in HandlesInScope(t)
  /\ LET st == RecordAll(active_sessions, levels, level, fid, data, Store)
         got == Admitting(level, fid)
     IN /\ \A g \in 1..Len(st.heap) : Len(st.heap[g].entries) <= MaxEntries
        /\ heap' = st.heap
        /\ emitted' = st.emitted
        /\ formats' = st.formats
        /\ exc' = [exc EXCEPT ![t] = st.fail]
        /\ frames' = [frames EXCEPT ![t] =
                        [i \in 1..Len(@) |-> [@[i] EXCEPT !.admits = @ \cup got]]]
  /\ UNCHANGED <<active_sessions, levels, history, group_stack, group_id, result>>
  /\ UNCHANGED <<recorders, created, pending, loggers, answer, queries>>

\* Recorder.is_enabled_for called on the handle of fid
Enabled(t, fid, level) ==
  /\ exc[t] = None
  /\ fid \in HandlesInScope(t)
  /\ answer' = [func |-> fid, level |-> level,
                value |-> IsEnabledForAny(active_sessions, levels, level, fid)]
  /\ UNCHANGED <<active_sessions, levels, history, group_stack, heap, group_id,
                 frames, exc, result, recorders, created, pending, loggers, emitted,
                 formats, queries>>

\* RecordSession.add_logger
AddLogger(t, s, k) ==
  /\ exc[t] = None
  /\ loggers' = [loggers EXCEPT ![s] = @ \cup {k}]
  /\ UNCHANGED <<active_sessions, levels, history, group_stack, heap, group_id,
                 frames, exc, result, recorders, created, pending, emitted, answer,
                 formats, queries>>

\* The body returns v: start_func's exit loop runs, the wrapper returns
CallReturn(t, v) ==
  /\ exc[t] = None
  /\ InCall(t)
  /\ LET st == ExitAll(active_sessions, Top(t).who, Store)
         body == <<"return", v>>
         seen == WrapperOutcome(body, st.fail)
     IN /\ heap' = st.heap
        /\ history' = st.history
        /\ group_stack' = st.group_stack
        /\ exc' = [exc EXCEPT ![t] = st.fail]
        /\ result' = [result EXCEPT ![t] = [body |-> body, seen |-> seen, own |-> st.fail]]
  /\ frames' = [frames EXCEPT ![t] = Front(@)]
  /\ UNCHANGED <<active_sessions, levels, group_id>>
  /\ UNCHANGED <<recorders, created, pending, loggers, emitted, answer, formats, queries>>

\* The code of the innermost block or body raises e
Raise(t, e) ==
  /\ exc[t] = None
  /\ frames[t] # <<>>
  /\ exc' = [exc EXCEPT ![t] = e]
  /\ UNCHANGED <<active_sessions, levels, history, group_stack, heap, group_id,
                 frames, result>>
  /\ UNCHANGED <<recorders, created, pending, loggers, emitted, answer, formats, queries>>

\* The exception in flight leaves the body of a call: the wrapper's
\* `with recorder.start_func()` sees it
PropagateCall(t) ==
  /\ exc[t] # None
  /\ InCall(t)
  /\ LET st == ExitOnFailure(active_sessions, Top(t).who, Store)
         body == <<"raise", exc[t]>>
         seen == WrapperOutcome(body, st.fail)
     IN /\ heap' = st.heap
        /\ history' = st.history
        /\ group_stack' = st.group_stack
        /\ exc' = [exc EXCEPT ![t] = seen[2]]
        /\ result' = [result EXCEPT ![t] = [body |-> body, seen |-> seen, own |-> st.fail]]
  /\ frames' = [frames EXCEPT ![t] = Front(@)]
  /\ UNCHANGED <<active_sessions, levels, group_id>>
  /\ UNCHANGED <<recorders, created, pending, loggers, emitted, answer, formats, queries>>

\* The exception in flight leaves a `with session.start():` block: the
\* generator is thrown into at its yield, `_active_sessions.pop()` is skipped
PropagateSession(t) ==
  /\ exc[t] # None
  /\ InSession(t)
  /\ frames' = [frames EXCEPT ![t] = Front(@)]
  /\ UNCHANGED <<active_sessions, levels, history, group_stack, heap, group_id,
                 exc, result>>
  /\ UNCHANGED <<recorders, created, pending, loggers, emitted, answer, formats, queries>>

\* A try/except of the caller catches the exception in flight
Catch(t) ==
  /\ exc[t] # None
  /\ exc' = [exc EXCEPT ![t] = None]
  /\ UNCHANGED <<active_sessions, levels, history, group_stack, heap, group_id,
                 frames, result>>
  /\ UNCHANGED <<recorders, created, pending, loggers, emitted, answer, formats, queries>>

\* ------------------------------------------------------ scripted client
\* A client program as the sequence of its operations.
OpSetLevel(s, f, l) == <<"set_level", s, f, l>>
OpStart(s) == <<"start", s>>
OpEnd == <<"end">>
OpCall(f) == <<"call", f>>
OpRecord(l, d) == <<"record", l, d>>
OpReturn(v) == <<"return", v>>
OpRaise(e) == <<"raise", e>>
OpPropagate == <<"propagate">>
OpCatch == <<"catch">>

\* set_level calls a client may have made before its scenario starts
Prefixes ==
  {<<>>} \cup {<<OpSetLevel(s, f, l)>> : s \in Sessions, f \in FuncIds, l \in RecordLevel}

\* F() does handle.debug("x", 1) then handle.info("y", 2) inside S's
\* activation, S has threshold INFO for F
ConcreteScript(s, f, v) ==
  <<OpSetLevel(s, f, INFO), OpStart(s), OpCall(f), OpRecord(DEBUG, <<"x", 1>>),
    OpRecord(INFO, <<"y", 2>>), OpReturn(v), OpEnd>>

\* Two sessions, started in the order a then b, both admit level l for f;
\* one call of f makes one record at l
FanOutScript(a, b, ta, tb, f, l, d) ==
  <<OpSetLevel(a, f, ta), OpSetLevel(b, f, tb), OpStart(a), OpStart(b),
    OpCall(f), OpRecord(l, d), OpReturn(1), OpEnd, OpEnd>>

\* Outer call of `outer` records nothing, its inner call of `inner` records once
NestedScript(s, outer, inner, d) ==
  <<OpSetLevel(s, inner, INFO), OpStart(s), OpCall(outer), OpCall(inner),
    OpRecord(INFO, d), OpReturn(1), OpReturn(2), OpEnd>>

\* Outer call whose inner call raises; the outer body catches the failure
\* and returns.  Nothing is recorded.
InnerFailsScript(s, outer, inner) ==
  <<OpStart(s), OpCall(outer), OpCall(inner), OpRaise("E"), OpPropagate, OpCatch,
    OpReturn(1), OpEnd>>

\* A calls B; B calls `inner`, which raises; B catches the failure and records
RecordAfterFailureScript(s, inner, d) ==
  <<OpSetLevel(s, "B", INFO), OpStart(s), OpCall("A"), OpCall("B"), OpCall(inner),
    OpRaise("E"), OpPropagate, OpCatch, OpRecord(INFO, d)>>

\* A call of g that raises leaves its Group on `stale`'s stack; later f is
\* called with no session active and its body activates a then b (one of
\* them `stale`, the other with no open Group) and records
BlockedScript(stale, a, b, f, g, d) ==
  <<OpSetLevel(a, f, INFO), OpSetLevel(b, f, INFO), OpStart(stale), OpCall(g),
    OpRaise("E"), OpPropagate, OpCatch, OpEnd, OpCall(f), OpStart(a), OpStart(b),
    OpRecord(INFO, d)>>

\* The threshold of s for f is changed while s is active and a call of f is
\* in flight: INFO, then DEBUG, then INFO again, a DEBUG record after each
LevelChangeScript(s, f) ==
  <<OpStart(s), OpCall(f),
    OpSetLevel(s, f, INFO), OpRecord(DEBUG, <<"x", 1>>),
    OpSetLevel(s, f, DEBUG), OpRecord(DEBUG, <<"y", 2>>),
    OpSetLevel(s, f, INFO), OpRecord(DEBUG, <<"x", 1>>),
    OpReturn(1), OpEnd>>

LevelChangeScripts == {LevelChangeScript(s, f) : s \in Sessions, f \in FuncIds}
ConcreteScripts == {ConcreteScript(s, f, v) : s \in Sessions, f \in FuncIds, v \in RetVals}
FanOutScripts ==
  {FanOutScript(a, b, ta, tb, f, l, d) :
     a \in Sessions, b \in Sessions, ta \in RecordLevel, tb \in RecordLevel,
     f \in FuncIds, l \in RecordLevel, d \in RecData}
NestedScripts ==
  {NestedScript(s, o, i, d) : s \in Sessions, o \in FuncIds, i \in FuncIds, d \in RecData}
InnerFailsScripts == {InnerFailsScript(s, o, i) : s \in Sessions, o \in FuncIds, i \in FuncIds}
RecordAfterFailureScripts ==
  {RecordAfterFailureScript(s, i, d) : s \in Sessions, i \in FuncIds, d \in RecData}
BlockedScripts ==
  {BlockedScript(st, a, b, f, g, d) :
     st \in Sessions, a \in Sessions, b \in Sessions, f \in FuncIds, g \in FuncIds,
     d \in RecData}

\* The scripts in which no failure is raised
ReturningScripts ==
  {p \o b : p \in Prefixes,
            b \in ConcreteScripts \cup FanOutScripts \cup NestedScripts \cup LevelChangeScripts}

Scripts ==
  ReturningScripts \cup
  {p \o b : p \in Prefixes,
            b \in InnerFailsScripts \cup RecordAfterFailureScripts \cup BlockedScripts}

\* A client that runs one of the scripts
ScriptInit == Fresh /\ script \in Scripts

\* A client that runs one of the scripts, or does anything (script <<>>)
Init == Fresh /\ script \in Scripts \cup {<<>>}

\* The next operation of the script is of kind k
ScriptOp(k) ==
  /\ steps < Len(script)
  /\ script[steps + 1][1] = k
  /\ steps' = steps + 1
  /\ UNCHANGED script

Arg(i) == script[steps + 1][i]

\* The next operation of a script whose calls all return normally
ReturningNext ==
  \/ ScriptOp("set_level") /\ SetLevel(MainThread, Arg(2), Arg(3), Arg(4))
  \/ ScriptOp("start") /\ SessionStart(MainThread, Arg(2))
  \/ ScriptOp("end") /\ SessionEnd(MainThread)
  \/ ScriptOp("call") /\ CallEnter(MainThread, Arg(2))
  \/ ScriptOp("record") /\ InBody(MainThread)
       /\ Record(MainThread, CurrentCall(MainThread).who, Arg(2), Arg(3))
  \/ ScriptOp("return") /\ CallReturn(MainThread, Arg(2))

\* The client does the next operation of its script
ScriptNext ==
  \/ ReturningNext
  \/ ScriptOp("raise") /\ Raise(MainThread, Arg(2))
  \/ ScriptOp("propagate") /\ PropagateCall(MainThread)
  \/ ScriptOp("catch") /\ Catch(MainThread)

\* A client that runs a script in which nothing raises
ReturningInit == Fresh /\ script \in ReturningScripts

SpecReturning == ReturningInit /\ [][ReturningNext]_vars

SpecScript == ScriptInit /\ [][ScriptNext]_vars

\* One more operation of a client that may do anything
Tick ==
  /\ script = <<>>
  /\ steps < MaxSteps
  /\ steps' = steps + 1
  /\ UNCHANGED script

\* One thread of control, any client
FreeNext ==
  \/ Tick /\ \E s \in Sessions, f \in FuncIds, l \in RecordLevel : SetLevel(MainThread, s, f, l)
  \/ Tick /\ \E s \in Sessions : SessionStart(MainThread, s)
  \/ Tick /\ SessionEnd(MainThread)
  \/ Tick /\ \E f \in FuncIds : CallEnter(MainThread, f)
  \/ Tick /\ \E f \in FuncIds, l \in RecordLevel, d \in RecData : Record(MainThread, f, l, d)
  \/ Tick /\ \E v \in RetVals : CallReturn(MainThread, v)
  \/ Tick /\ \E e \in UserFailures : Raise(MainThread, e)
  \/ Tick /\ PropagateCall(MainThread)
  \/ Tick /\ PropagateSession(MainThread)
  \/ Tick /\ Catch(MainThread)

Next == FreeNext \/ ScriptNext

Spec == Init /\ [][Next]_vars

\* ------------------------------------------------------- several threads
\* Every session has threshold INFO for every function
ThreadsInit ==
  /\ active_sessions = <<>>
  /\ levels = [s \in Sessions |-> [f \in FuncIds |-> INFO]]
  /\ history = [s \in Sessions |-> <<>>]
  /\ group_stack = [s \in Sessions |-> <<>>]
  /\ heap = <<>>
  /\ group_id = [t \in Threads |-> IF t = MainThread THEN 0 ELSE Unset]
  /\ frames = [t \in Threads |-> <<>>]
  /\ exc = [t \in Threads |-> None]
  /\ result = [t \in Threads |-> NoResult]
  /\ recorders = [f \in FuncIds |-> NoHandle]
  /\ created = [f \in FuncIds |-> 0]
  /\ pending = [t \in Threads |-> None]
  /\ loggers = [s \in Sessions |-> {}]
  /\ emitted = [k \in Loggers |-> <<>>]
  /\ answer = NoAnswer
  /\ formats = [s \in Sessions |-> 0]
  /\ views = <<>>
  /\ input = NoInput
  /\ output = NoOutput
  /\ steps = 0
  /\ script = <<>>

\* One more operation of one of the threads
ThreadTick(t) ==
  /\ steps < MaxThreadSteps
  /\ steps' = steps + 1
  /\ UNCHANGED script

\* A thread in the middle of _get_recorder does nothing else
Idle(t) == pending[t] = None

\* Two threads of control, the interpreter switching between them after
\* any operation
ThreadsNext ==
  \/ \E t \in Threads : ThreadTick(t) /\ Idle(t) /\ \E s \in Sessions : SessionStart(t, s)
  \/ \E t \in Threads : ThreadTick(t) /\ Idle(t) /\ SessionEnd(t)
  \/ \E t \in Threads : ThreadTick(t) /\ \E f \in FuncIds : CallEnter(t, f)
  \/ \E t \in Threads : ThreadTick(t) /\ \E f \in FuncIds : LookupMiss(t, f)
  \/ \E t \in Threads : ThreadTick(t) /\ CallEnterAfterMiss(t)
  \/ \E t \in Threads : ThreadTick(t) /\ Idle(t) /\ InBody(t)
        /\ \E d \in RecData : Record(t, CurrentCall(t).who, INFO, d)
  \/ \E t \in Threads : ThreadTick(t) /\ Idle(t) /\ \E v \in RetVals : CallReturn(t, v)
  \/ \E t \in Threads : ThreadTick(t) /\ Idle(t) /\ Catch(t)

SpecThreads == ThreadsInit /\ [][ThreadsNext]_vars

\* ---------------------------------------------- configured sessions
\* The loggers attached before: any to s1, at most L1 to s2
LoggerConfigs == {c \in [Sessions -> SUBSET Loggers] : c["s2"] \subseteq {"L1"}}

\* The thresholds set before: a session has one threshold for all
\* functions, or none; s1 any level, s2 DEBUG
LevelConfigs == {c \in [Sessions -> {NoLevel} \cup RecordLevel] : c["s2"] # INFO}

\* Sessions whose thresholds and loggers were set up before
ConfiguredInit ==
  /\ active_sessions = <<>>
  /\ \E c \in LevelConfigs :
       levels = [s \in Sessions |-> [f \in FuncIds |-> c[s]]]
  /\ history = [s \in Sessions |-> <<>>]
  /\ group_stack = [s \in Sessions |-> <<>>]
  /\ heap = <<>>
  /\ group_id = [t \in Threads |-> IF t = MainThread THEN 0 ELSE Unset]
  /\ frames = [t \in Threads |-> <<>>]
  /\ exc = [t \in Threads |-> None]
  /\ result = [t \in Threads |-> NoResult]
  /\ recorders = [f \in FuncIds |-> NoHandle]
  /\ created = [f \in FuncIds |-> 0]
  /\ pending = [t \in Threads |-> None]
  /\ loggers \in LoggerConfigs
  /\ emitted = [k \in Loggers |-> <<>>]
  /\ answer = NoAnswer
  /\ formats = [s \in Sessions |-> 0]
  /\ views = <<>>
  /\ input = NoInput
  /\ output = NoOutput
  /\ steps = 0
  /\ script = <<>>

ConfiguredTick ==
  /\ steps < MaxConfiguredSteps
  /\ steps' = steps + 1
  /\ UNCHANGED script

\* One thread of control working with the configured sessions
ConfiguredNext ==
  \/ ConfiguredTick /\ \E s \in Sessions : SessionStart(MainThread, s)
  \/ ConfiguredTick /\ SessionEnd(MainThread)
  \/ ConfiguredTick /\ \E f \in FuncIds : CallEnter(MainThread, f)
  \/ ConfiguredTick /\ \E f \in FuncIds, l \in RecordLevel, d \in RecData :
                         Record(MainThread, f, l, d)
  \/ ConfiguredTick /\ \E s \in Sessions, k \in Loggers : AddLogger(MainThread, s, k)
  \/ ConfiguredTick /\ \E v \in RetVals : CallReturn(MainThread, v)

SpecConfigured == ConfiguredInit /\ [][ConfiguredNext]_vars

\* Configured sessions without loggers
QueryInit == ConfiguredInit /\ loggers = [s \in Sessions |-> {}]

\* One thread of control that also asks its handles whether a level is enabled
QueryNext ==
  \/ ConfiguredTick /\ \E s \in Sessions : SessionStart(MainThread, s)
  \/ ConfiguredTick /\ SessionEnd(MainThread)
  \/ ConfiguredTick /\ \E f \in FuncIds : CallEnter(MainThread, f)
  \/ ConfiguredTick /\ \E f \in FuncIds, l \in RecordLevel, d \in RecData :
                         Record(MainThread, f, l, d)
  \/ ConfiguredTick /\ \E f \in FuncIds, l \in RecordLevel : Enabled(MainThread, f, l)
  \/ ConfiguredTick /\ \E v \in RetVals : CallReturn(MainThread, v)

SpecQuery == QueryInit /\ [][QueryNext]_vars

\* ------------------------------------------------------ history lookup
MaxViews == 2

\* The variables of the recorder
recorder == <<active_sessions, levels, history, group_stack, heap, group_id, frames,
              exc, result, recorders, created, pending, loggers, emitted, answer,
              formats>>

GroupMatchesAny(g, fid) == TRUE

\* The lambda of RecordSet.get_history: g.func_id == func.id
GroupMatches(g, fid) == heap[g].func_id = fid

\* RecordSession.get_records().get_history(func): a filter object over the
\* session's _history list; nothing is read from the list yet.  `base` and
\* `stable` remember the list the iterator was made on and whether every
\* read found it unchanged.
GetHistory(t, s, fid) ==
  /\ exc[t] = None
  /\ Len(views) < MaxViews
  /\ views' = Append(views, [session |-> s, func |-> fid, pos |-> 0, out |-> <<>>,
                             done |-> FALSE, base |-> history[s], stable |-> TRUE])
  /\ UNCHANGED <<recorder, input, output>>

\* The index of the first group after position pos of h that the filter
\* lets through, 0 when the list iterator runs off the end first
NextMatch(h, pos, fid) ==
  LET c == {i \in (pos + 1)..Len(h) : GroupMatches(h[i], fid)}
  IN IF c = {} THEN 0 ELSE CHOOSE i \in c : \A j \in c : i <= j

\* next() on the filter object v: the list iterator reads the live list
\* from where it stopped; once it has run off the end it stays exhausted
NextGroup(t, v) ==
  /\ exc[t] = None
  /\ v \in 1..Len(views)
  /\ ~views[v].done
  /\ LET it == views[v]
         h == history[it.session]
         n == NextMatch(h, it.pos, it.func)
         same == it.stable /\ h = it.base
     IN views' = [views EXCEPT ![v] =
                    IF n = 0
                    THEN [it EXCEPT !.done = TRUE, !.stable = same]
                    ELSE [it EXCEPT !.pos = n, !.out = Append(@, h[n]), !.stable = same]]
  /\ UNCHANGED <<recorder, input, output>>

\* Within one activation of s: a call of f, a call of another function g,
\* a call of f again, each making one record that s admits
HistoryScript(s, f, g) ==
  <<OpSetLevel(s, f, INFO), OpSetLevel(s, g, INFO), OpStart(s),
    OpCall(f), OpRecord(INFO, <<"x", 1>>), OpReturn(1),
    OpCall(g), OpRecord(INFO, <<"y", 2>>), OpReturn(2),
    OpCall(f), OpRecord(INFO, <<"x", 1>>), OpReturn(1), OpEnd>>

HistoryScripts ==
  {HistoryScript(s, f, g) : s \in Sessions, f \in FuncIds, g \in FuncIds} \
  {HistoryScript(s, f, f) : s \in Sessions, f \in FuncIds}

HistoryInit == Fresh /\ script \in HistoryScripts

\* The client looks at a history between two operations of its script
Pause == UNCHANGED <<script, steps>>

HistoryNext ==
  \/ ReturningNext
  \/ Pause /\ \E s \in Sessions, f \in FuncIds : GetHistory(MainThread, s, f)
  \/ Pause /\ \E v \in 1..MaxViews : NextGroup(MainThread, v)

SpecHistory == HistoryInit /\ [][HistoryNext]_vars

\* ------------------------------------------------ TrotterSingletUCCSD
MaxOrbitals == 6

\* The constructor without its check of the virtual orbitals
TrotterSingletUCCSDUnchecked(n_spin_orbitals, n_fermions, spin_symmetric) ==
  IF n_fermions % 2 # 0
  THEN [kind |-> "ValueError", built |-> None,
        msg |-> "Number of electrons must be even for SingletUCCSD."]
  ELSE [kind |-> "TrotterSingletUCCSD", msg |-> None,
        built |-> IF spin_symmetric THEN "_construct_spin_symmetric_circuit"
                                    ELSE "_construct_circuit"]

\* TrotterSingletUCCSD.__init__: the error raised, or the function that
\* built the circuit handed to the base class
TrotterSingletUCCSD(n_spin_orbitals, n_fermions, spin_symmetric) ==
  LET n_vir_sorbs == n_spin_orbitals - n_fermions
  IN IF n_fermions % 2 # 0
     THEN [kind |-> "ValueError", built |-> None,
           msg |-> "Number of electrons must be even for SingletUCCSD."]
     ELSE IF n_vir_sorbs <= 0
     THEN [kind |-> "ValueError", built |-> None,
           msg |-> "Number of virtual orbitals must be a non-zero integer."]
     ELSE [kind |-> "TrotterSingletUCCSD", msg |-> None,
           built |-> IF spin_symmetric THEN "_construct_spin_symmetric_circuit"
                                       ELSE "_construct_circuit"]

UCCSDInputs ==
  [call : {"TrotterSingletUCCSD"}, n_spin_orbitals : 0..MaxOrbitals,
   n_fermions : (0 - MaxOrbitals)..MaxOrbitals, spin_symmetric : BOOLEAN]

\* The call about to be made
Calling(name) == input.call = name /\ output.kind = None

\* A caller constructs the ansatz
Construct ==
  /\ Calling("TrotterSingletUCCSD")
  /\ output' = TrotterSingletUCCSD(input.n_spin_orbitals, input.n_fermions,
                                    input.spin_symmetric)
  /\ UNCHANGED <<recorder, views, input, script, steps>>

UCCSDInit == Loaded /\ script = <<>> /\ input \in UCCSDInputs /\ output = NoOutput

UCCSDNext == Construct

SpecUCCSD == UCCSDInit /\ [][UCCSDNext]_vars

\* --------------------------------------------------- convert_gate_f32
MaxQubit == 3

Qubits == 0..MaxQubit

\* quri_parts.circuit.gates: the QuantumGate each factory returns
X(target_index) ==
  [name |-> "X", target_indices |-> <<target_index>>, control_indices |-> <<>>,
   params |-> <<>>]
H(target_index) ==
  [name |-> "H", target_indices |-> <<target_index>>, control_indices |-> <<>>,
   params |-> <<>>]
CNOT(control_index, target_index) ==
  [name |-> "CNOT", target_indices |-> <<target_index>>,
   control_indices |-> <<control_index>>, params |-> <<>>]
CZ(control_index, target_index) ==
  [name |-> "CZ", target_indices |-> <<target_index>>,
   control_indices |-> <<control_index>>, params |-> <<>>]
SWAP(target_index1, target_index2) ==
  [name |-> "SWAP", target_indices |-> <<target_index1, target_index2>>,
   control_indices |-> <<>>, params |-> <<>>]
TOFFOLI(control_index1, control_index2, target_index) ==
  [name |-> "TOFFOLI", target_indices |-> <<target_index>>,
   control_indices |-> <<control_index1, control_index2>>, params |-> <<>>]

Pauli(target_indices, pauli_ids) ==
  [name |-> "Pauli", target_indices |-> target_indices, control_indices |-> <<>>,
   params |-> <<>>, pauli_ids |-> pauli_ids]
PauliRotation(target_indices, pauli_ids, angle) ==
  [name |-> "PauliRotation", target_indices |-> target_indices,
   control_indices |-> <<>>, params |-> <<angle>>, pauli_ids |-> pauli_ids]
UnitaryMatrix(target_indices, unitary_matrix) ==
  [name |-> "UnitaryMatrix", target_indices |-> target_indices,
   control_indices |-> <<>>, params |-> <<>>, unitary_matrix |-> unitary_matrix]
ParametricRX(target_index) ==
  [name |-> "ParametricRX", target_indices |-> <<target_index>>,
   control_indices |-> <<>>, params |-> <<>>]
\* QuantumGate(name, target_indices) with a name that is no gate name
QuantumGate(name, target_indices) ==
  [name |-> name, target_indices |-> target_indices, control_indices |-> <<>>,
   params |-> <<>>]

\* Pauli ids of a Pauli gate on n qubits: X, Y or Z on each
PauliIds(n) == [1..n -> 1..3]

\* The one angle and the one matrix the callers use
Angle == 1
UnitaryOf(n) == <<"unitary", n>>

\* The gate a factory builds from the qubits q
Build(factory, q) ==
  CASE factory = "X" -> X(q[1])
    [] factory = "H" -> H(q[1])
    [] factory = "CNOT" -> CNOT(q[1], q[2])
    [] factory = "CZ" -> CZ(q[1], q[2])
    [] factory = "SWAP" -> SWAP(q[1], q[2])
    [] factory = "TOFFOLI" -> TOFFOLI(q[1], q[2], q[3])
    [] factory = "UnitaryMatrix" -> UnitaryMatrix(q, UnitaryOf(Len(q)))
    [] factory = "ParametricRX" -> ParametricRX(q[1])
    [] factory = "QuantumGate" -> QuantumGate("Unknown", q)

\* The gate a multi-qubit factory builds from the qubits q and the ids p
BuildPauli(factory, q, p) ==
  CASE factory = "Pauli" -> Pauli(q, p)
    [] factory = "PauliRotation" -> PauliRotation(q, p, Angle)

is_single_qubit_gate_name(name) == name \in {"X", "H"}
is_two_qubit_gate_name(name) == name \in {"CNOT", "CZ", "SWAP"}
is_three_qubit_gate_name(name) == name \in {"TOFFOLI"}
is_multi_qubit_gate_name(name) == name \in {"Pauli", "PauliRotation"}
is_unitary_matrix_gate_name(name) == name \in {"UnitaryMatrix"}
is_parametric_gate_name(name) == name \in {"ParametricRX"}
is_gate_name(name) ==
  \/ is_single_qubit_gate_name(name) \/ is_two_qubit_gate_name(name)
  \/ is_three_qubit_gate_name(name) \/ is_multi_qubit_gate_name(name)
  \/ is_unitary_matrix_gate_name(name) \/ is_parametric_gate_name(name)

\* _multi_pauli_gate_scaluq_f32: its keys
MultiPauliGateScaluqF32 == {"Pauli"}

\* _single_qubit_gate_scaluq_f32, _two_qubit_gate_scaluq_f32 and
\* _three_qubit_gate_scaluq_f32: the scaluq.f32.gate function of a gate name
GateScaluqF32(name) ==
  CASE name = "X" -> "X"
    [] name = "H" -> "H"
    [] name = "CNOT" -> "CX"
    [] name = "CZ" -> "CZ"
    [] name = "SWAP" -> "Swap"
    [] name = "TOFFOLI" -> "Toffoli"

\* convert_gate_f32, the branch of the multi-qubit gate names: a return
\* statement only for the names of _multi_pauli_gate_scaluq_f32; for the
\* other names the function ends without one and the caller gets None
MultiQubitGate(gate) ==
  IF gate.name \in MultiPauliGateScaluqF32
  THEN [kind |-> "call", func |-> "Pauli",
        args |-> <<<<"PauliOperator", gate.target_indices, gate.pauli_ids>>>>]
  ELSE [kind |-> "return", func |-> None, args |-> <<>>]

\* convert_gate_f32: what the call gives its caller. kind "call": the
\* gate made by the scaluq function func called with the positional
\* arguments args; kind "return": the function ended without a return
\* value; kind "ValueError": it raised
convert_gate_f32(gate) ==
  IF ~is_gate_name(gate.name)
  THEN [kind |-> "ValueError", func |-> None, args |-> <<>>]
  ELSE IF is_single_qubit_gate_name(gate.name)
  THEN [kind |-> "call", func |-> GateScaluqF32(gate.name),
        args |-> gate.target_indices \o gate.params]
  ELSE IF is_two_qubit_gate_name(gate.name)
  THEN [kind |-> "call", func |-> GateScaluqF32(gate.name),
        args |-> gate.target_indices \o gate.target_indices]
  ELSE IF is_three_qubit_gate_name(gate.name)
  THEN [kind |-> "call", func |-> GateScaluqF32(gate.name),
        args |-> gate.target_indices \o gate.target_indices \o gate.target_indices]
  ELSE IF is_multi_qubit_gate_name(gate.name)
  THEN MultiQubitGate(gate)
  ELSE IF is_unitary_matrix_gate_name(gate.name)
  THEN [kind |-> "call", func |-> "DenseMatrix",
        args |-> <<gate.target_indices, gate.unitary_matrix>>]
  ELSE [kind |-> "ValueError", func |-> None, args |-> <<>>]

\* Sequences of n different qubits
Distinct(n) == {q \in [1..n -> Qubits] : \A i \in 1..n, j \in 1..n : i # j => q[i] # q[j]}

ConvertInputs ==
  [call : {"convert_gate_f32"}, factory : {"X", "H"}, qubits : Distinct(1)]
  \cup [call : {"convert_gate_f32"}, factory : {"CNOT", "CZ", "SWAP"}, qubits : Distinct(2)]
  \cup [call : {"convert_gate_f32"}, factory : {"TOFFOLI"}, qubits : Distinct(3)]
  \cup [call : {"convert_gate_f32"}, factory : {"ParametricRX", "QuantumGate"},
        qubits : Distinct(1)]
  \cup [call : {"convert_gate_f32"}, factory : {"UnitaryMatrix"},
        qubits : Distinct(1) \cup Distinct(2)]
  \cup UNION {[call : {"convert_gate_f32"}, factory : {"Pauli", "PauliRotation"},
               qubits : Distinct(n), pauli_ids : PauliIds(n)] : n \in 1..2}

\* A caller converts the gate a factory built
Convert ==
  /\ Calling("convert_gate_f32")
  /\ output' = convert_gate_f32(
                 IF is_multi_qubit_gate_name(input.factory)
                 THEN BuildPauli(input.factory, input.qubits, input.pauli_ids)
                 ELSE Build(input.factory, input.qubits))
  /\ UNCHANGED <<recorder, views, input, script, steps>>

ConvertInit == Loaded /\ script = <<>> /\ input \in ConvertInputs /\ output = NoOutput

ConvertNext == Convert

SpecConvert == ConvertInit /\ [][ConvertNext]_vars

\* ------------------------------------------------------ quantum_state
MaxStateQubits == 3
MaxBits == 7

\* The default of the parameter `bits`
DefaultBits == 0

\* quantum_state: the error raised, or the state built
quantum_state(n_qubits, vector, bits, circuit) ==
  IF vector = None
  THEN IF circuit = None
       THEN [kind |-> "ComputationalBasisState", n_qubits |-> n_qubits, bits |-> bits,
             vector |-> None, circuit |-> None]
       ELSE [kind |-> "_circuit_quantum_state", n_qubits |-> n_qubits, bits |-> bits,
             vector |-> None, circuit |-> circuit]
  ELSE IF bits # 0
       THEN [kind |-> "ValueError", n_qubits |-> n_qubits, bits |-> bits,
             vector |-> vector, circuit |-> circuit]
       ELSE [kind |-> "_quantum_state_vector", n_qubits |-> n_qubits, bits |-> bits,
             vector |-> vector, circuit |-> circuit]

\* The keyword arguments of a call: `bits` is <<>> when the caller leaves
\* it out and <<b>> when the caller passes b
StateInputs ==
  [call : {"quantum_state"}, n_qubits : 1..MaxStateQubits, vector : {None, "vector"},
   bits : {<<>>} \cup {<<b>> : b \in 0..MaxBits}, circuit : {None, "circuit"}]

\* The value the parameter `bits` is bound to
BitsParameter(kw) == IF kw.bits = <<>> THEN DefaultBits ELSE kw.bits[1]

\* A caller asks for a state
QuantumState ==
  /\ Calling("quantum_state")
  /\ output' = quantum_state(input.n_qubits, input.vector, BitsParameter(input),
                              input.circuit)
  /\ UNCHANGED <<recorder, views, input, script, steps>>

StateInit == Loaded /\ script = <<>> /\ input \in StateInputs /\ output = NoOutput

StateNext == QuantumState

SpecState == StateInit /\ [][StateNext]_vars

\* ------------------------------------------------------ nested calls
\* a calls b and, after b has returned, records, once or twice; b
\* records (and its Group is kept) or not (and its Group is pruned)
NestedReturnScript(s, a, b, inner, twice) ==
  <<OpSetLevel(s, a, INFO), OpSetLevel(s, b, INFO), OpStart(s), OpCall(a), OpCall(b)>>
  \o inner \o
  <<OpReturn(1), OpRecord(INFO, <<"y", 2>>)>>
  \o (IF twice THEN <<OpRecord(INFO, <<"x", 1>>)>> ELSE <<>>) \o
  <<OpReturn(2), OpEnd>>

\* a calls b, which raises; a catches the failure, calls c, which returns,
\* and then records
ReturnAfterFailureScript(s, a, b, c, d) ==
  <<OpSetLevel(s, a, INFO), OpStart(s), OpCall(a), OpCall(b), OpRaise("E"),
    OpPropagate, OpCatch, OpCall(c), OpReturn(1), OpRecord(INFO, d), OpReturn(2),
    OpEnd>>

NestedReturnScripts ==
  {NestedReturnScript(s, a, b, inner, twice) :
     s \in Sessions, a \in FuncIds, b \in FuncIds,
     inner \in {<<>>, <<OpRecord(INFO, <<"x", 1>>)>>}, twice \in BOOLEAN}

ReturnAfterFailureScripts ==
  {ReturnAfterFailureScript(s, a, b, c, d) :
     s \in Sessions, a \in FuncIds, b \in FuncIds, c \in FuncIds, d \in RecData}

NestedInit == Fresh /\ script \in NestedReturnScripts \cup ReturnAfterFailureScripts

SpecNested == NestedInit /\ [][ScriptNext]_vars

\* ------------------------------------------------- repeated activation
\* s is activated, f is called and records, the block ends; s is
\* activated again, g is called and records, the block ends
ReactivateScript(s, f, g, d) ==
  <<OpSetLevel(s, f, INFO), OpSetLevel(s, g, INFO),
    OpStart(s), OpCall(f), OpRecord(INFO, d), OpReturn(1), OpEnd,
    OpStart(s), OpCall(g), OpRecord(INFO, d), OpReturn(2), OpEnd>>

ReactivateScripts ==
  {ReactivateScript(s, f, g, d) :
     s \in Sessions, f \in FuncIds, g \in FuncIds, d \in RecData}

ReactivateInit == Fresh /\ script \in ReactivateScripts

SpecReactivate == ReactivateInit /\ [][ReturningNext]_vars

\* The script being run is `body` after some prefix
Running(body) == \E p \in Prefixes : script = p \o body
\* ================================================================ claims
GroupsOf(s) == Range(history[s]) \cup Range(group_stack[s])

\* `new` is `old` with one or more copies of e appended
Extended(old, new, e) ==
  /\ Len(new) > Len(old)
  /\ SubSeq(new, 1, Len(old)) = old
  /\ \A i \in (Len(old) + 1)..Len(new) : new[i] = e

\* This step appends the Entry e to a Group of session s
GetsEntry(s, e) == \E g \in GroupsOf(s) : Extended(heap[g].entries, heap'[g].entries, e)
\* This step leaves every Group of session s as it was
GetsNothing(s) == \A g \in GroupsOf(s) : heap'[g] = heap[g]

\* s has a threshold configured for f and level >= threshold
AdmittedBy(s, level, f) == levels[s][f] # NoLevel /\ level >= levels[s][f]

FirstIndex(s) ==
  CHOOSE i \in 1..Len(active_sessions) :
    active_sessions[i] = s /\ \A j \in 1..(i - 1) : active_sessions[j] # s

\* s and every admitting session before it in the active list has an open Group
OpenUpTo(s, level, f) ==
  \A j \in 1..FirstIndex(s) :
    AdmittedBy(active_sessions[j], level, f) => group_stack[active_sessions[j]] # <<>>

\* This step is the call record(l, d) on f's handle made by thread t
RecordStep(t, f, l, d) ==
  /\ UNCHANGED <<active_sessions, levels, history, group_stack, result>>
  /\ Record(t, f, l, d)

\* C1 as stated: one record call on F's handle inside a call of F appends an
\* Entry to an active Session S iff S has a threshold for F and
\* level >= threshold; otherwise S gets no Entry from that call.
C1_AdmissionAsStated ==
  [][\A t \in Threads, f \in FuncIds, l \in RecordLevel, d \in RecData :
       RecordStep(t, f, l, d) =>
         \A s \in Range(active_sessions) :
              /\ GetsEntry(s, RecordEntry(l, f, d)) <=> AdmittedBy(s, l, f)
              /\ ~AdmittedBy(s, l, f) => GetsNothing(s)]_vars

\* C1 (amended): the record call appends an Entry to an active Session S iff
\* S has a threshold for F, level >= threshold, and S and every admitting
\* Session before S in the active list has an open Group (a non-empty
\* stack); otherwise S gets no Entry from that call.
C1_Admission ==
  [][\A t \in Threads, f \in FuncIds, l \in RecordLevel, d \in RecData :
       RecordStep(t, f, l, d) =>
         \A s \in Range(active_sessions) :
           LET yes == AdmittedBy(s, l, f) /\ OpenUpTo(s, l, f)
           IN /\ GetsEntry(s, RecordEntry(l, f, d)) <=> yes
              /\ ~yes => GetsNothing(s)]_vars

\* C1 witness: two active sessions inside one call, s1 admitted a DEBUG
\* record and holds its Entry, s2 (threshold INFO) did not and holds none.
C1_Witness ==
  \E s1 \in Sessions, s2 \in Sessions :
    /\ s1 # s2
    /\ active_sessions = <<s1, s2>>
    /\ InBody(MainThread)
    /\ group_stack[s1] # <<>> /\ group_stack[s2] # <<>>
    /\ levels[s2][CurrentCall(MainThread).who] = INFO
    /\ heap[Last(group_stack[s2])].entries = <<>>
    /\ heap[Last(group_stack[s1])].entries # <<>>
    /\ heap[Last(group_stack[s1])].entries[1].level = DEBUG

\* C2: S sets threshold INFO for F; inside S's activation F is called once
\* and does debug("x", 1) then info("y", 2).  After the activation ends S's
\* History holds exactly one Group for F, holding exactly the Entry
\* (INFO, F, "y", 2).
C2_ConcreteScenario ==
  \A s \in Sessions, f \in FuncIds, v \in RetVals :
    (Running(ConcreteScript(s, f, v)) /\ steps = Len(script)) =>
      LET gs == {i \in 1..Len(history[s]) : heap[history[s][i]].func_id = f}
      IN /\ s \notin Range(active_sessions)
         /\ Cardinality(gs) = 1
         /\ \A i \in gs :
              heap[history[s][i]].entries = <<RecordEntry(INFO, f, <<"y", 2>>)>>

\* C2 witness: the concrete scenario has run to its end
C2_Witness ==
  \E s \in Sessions, f \in FuncIds, v \in RetVals :
    Running(ConcreteScript(s, f, v)) /\ steps = Len(script) /\ history[s] # <<>>

\* C3: a call of an instrumented function whose execution produces no
\* admitted record in Session S leaves S's History, after the call returns,
\* as it was before the call: same Groups, same order, same Entries.
C3_GroupPruning ==
  [][\A t \in Threads, v \in RetVals :
       (CallReturn(t, v) /\ exc'[t] = None) =>
         \A s \in Sessions \ Top(t).admits :
           HistoryView(s)' = Top(t).hist0[s]]_vars

NoCallInFlight ==
  \A t \in Threads : \A i \in 1..Len(frames[t]) : frames[t][i].kind # "call"

\* C4: whenever no instrumented call is in flight, no Session's History
\* contains a Group with zero Entries.
C4_NoEmptyGroup ==
  NoCallInFlight =>
    \A s \in Sessions : \A g \in Range(history[s]) : heap[g].entries # <<>>

\* C5: a closed Group (off the stack of open Groups) with at least one
\* Entry that is in S's History is still in S's History after any step.
C5_ClosedGroupRetained ==
  [][\A s \in Sessions : \A g \in Range(history[s]) \ Range(group_stack[s]) :
       heap[g].entries # <<>> => g \in Range(history'[s])]_vars

\* The Groups a call frame opened in session s
Opened(fr, s) == {fr.pushed[i][2] : i \in {j \in 1..Len(fr.pushed) : fr.pushed[j][1] = s}}

\* C6: A calls B and B's body calls record, admitted in S, while A's Group
\* is still open in S: the Entry is appended to B's Group and A's Group
\* gains no Entry.
C6_Attribution ==
  [][\A t \in Threads, l \in RecordLevel, d \in RecData :
       (Len(frames[t]) >= 2 /\ RecordStep(t, Top(t).who, l, d)) =>
         LET B == frames[t][Len(frames[t])]
             A == frames[t][Len(frames[t]) - 1]
         IN (A.kind = "call" /\ B.kind = "call") =>
              \A s \in Sessions :
                (/\ AdmittedBy(s, l, B.who)
                 /\ s \in Range(active_sessions)
                 /\ Opened(A, s) # {}
                 /\ Opened(A, s) \subseteq Range(group_stack[s])) =>
                   /\ \E gb \in Opened(B, s) :
                        Extended(heap[gb].entries, heap'[gb].entries,
                                 RecordEntry(l, B.who, d))
                   /\ \A ga \in Opened(A, s) : heap'[ga] = heap[ga]]_vars

\* C7: two distinct Sessions both active, both admitting level l for f; one
\* call of f whose body makes one record at l leaves exactly one new Group
\* with exactly one Entry in each Session's History, two distinct Groups.
C7_FanOut ==
  \A a \in Sessions, b \in Sessions, ta \in RecordLevel, tb \in RecordLevel,
     f \in FuncIds, l \in RecordLevel, d \in RecData :
    (/\ a # b /\ l >= ta /\ l >= tb
     /\ Running(FanOutScript(a, b, ta, tb, f, l, d))
     /\ steps >= Len(script) - 2) =>
       /\ \A s \in {a, b} :
            /\ Len(history[s]) = 1
            /\ heap[history[s][1]].func_id = f
            /\ heap[history[s][1]].entries = <<RecordEntry(l, f, d)>>
       /\ history[a][1] # history[b][1]

\* C7 witness: the fan-out scenario with two distinct admitting Sessions
\* has returned from its call
C7_Witness ==
  \E a \in Sessions, b \in Sessions, ta \in RecordLevel, tb \in RecordLevel,
     f \in FuncIds, l \in RecordLevel, d \in RecData :
    /\ a # b /\ l >= ta /\ l >= tb
    /\ Running(FanOutScript(a, b, ta, tb, f, l, d))
    /\ steps = Len(script) - 2
    /\ result[MainThread].seen = <<"return", 1>>

\* C8: when the body of an instrumented function raises, then once the
\* failure has left the wrapper, in every active Session the Group opened
\* for the call is off the stack of open Groups and, if it has no Entries,
\* out of the History.
C8_CleanupOnFailure ==
  [][\A t \in Threads :
       PropagateCall(t) =>
         \A s \in Range(active_sessions) : \A g \in Opened(Top(t), s) :
           /\ g \notin Range(group_stack'[s])
           /\ heap[g].entries = <<>> => g \notin Range(history'[s])]_vars

\* C9: the caller of the wrapped function observes what the body did: the
\* value it returned, or the failure it raised.
C9_OutcomeUnchanged ==
  \A t \in Threads : result[t].body # NotRun => result[t].seen = result[t].body

\* C10: opening and closing Groups around the body raises no failure of
\* its own.
C10_NoRecordingFailure ==
  \A t \in Threads : result[t].own = None

\* This step takes thread t out of its innermost `with session.start():` block
LeavesBlock(t) == InSession(t) /\ frames'[t] = Front(frames[t])

\* C11: when a scoped-activation block is left, by normal completion or by
\* a failure raised inside it, its Session is no longer in the active list
\* and the list is what it was before the block was entered.
C11_ActivationSymmetric ==
  [][\A t \in Threads :
       LeavesBlock(t) =>
         /\ active_sessions' = Top(t).act0
         /\ (Top(t).who \notin Range(Top(t).act0)) =>
              Top(t).who \notin Range(active_sessions')]_vars

\* Number of positions of the sequence q that hold x
Count(q, x) == Cardinality({i \in 1..Len(q) : q[i] = x})

\* Number of `with s.start():` blocks control is inside, over all threads
BlocksEntered(s) ==
  LET n(t) == Cardinality({i \in 1..Len(frames[t]) :
                             frames[t][i].kind = "session" /\ frames[t][i].who = s})
  IN n(MainThread) + n("worker")

\* C12: threads running the activation blocks of their Sessions, under
\* every interleaving of enters and exits: after each step the active list
\* contains exactly the Sessions whose block has been entered and not yet
\* exited.
C12_ConcurrentActivation ==
  \A s \in Sessions : Count(active_sessions, s) = BlocksEntered(s)

\* This step is thread t going from the wrapper's entry into the body of f
CallStep(t) == (\E f \in FuncIds : CallEnter(t, f)) \/ CallEnterAfterMiss(t)

\* The Groups that the call in flight with frame fr opened, in any session
OpenedBy(fr) == {fr.pushed[i][2] : i \in 1..Len(fr.pushed)}

\* Every Entry that thread t's record adds goes to a Group of t's own call
RecordsInOwnGroup(t) ==
  \A d \in RecData :
    (InBody(t) /\ RecordStep(t, CurrentCall(t).who, INFO, d)) =>
      \A g \in 1..Len(heap) : heap'[g] # heap[g] => g \in OpenedBy(CurrentCall(t))

\* C13: two threads call instrumented functions while the same Session is
\* active: under every interleaving each call pushes its own Group in the
\* Session, and every Entry recorded inside one call is in that call's
\* Group, never in the other call's Group.
C13_TwoThreadsOneSession ==
  [][\A t \in Threads :
       /\ CallStep(t) =>
            /\ Len(frames'[t]) = Len(frames[t]) + 1
            /\ \A s \in Range(active_sessions) : Opened(Last(frames'[t]), s) # {}
       /\ RecordsInOwnGroup(t)]_vars

\* C14: for every identity at most one recording handle is ever created and
\* every lookup returns that same handle, also when two threads make their
\* first call of the same function at the same time.
C14_OneHandlePerIdentity ==
  /\ \A f \in FuncIds : created[f] <= 1
  /\ \A t \in Threads, u \in Threads :
       \A i \in 1..Len(frames[t]), j \in 1..Len(frames[u]) :
         (/\ frames[t][i].kind = "call" /\ frames[u][j].kind = "call"
          /\ frames[t][i].who = frames[u][j].who) =>
           frames[t][i].handle = frames[u][j].handle

\* The record at level l for f leaves session s as it was: its History, its
\* Groups, and the loggers that it does not share with an admitting session
Untouched(s, l, f) ==
  /\ history'[s] = history[s]
  /\ group_stack'[s] = group_stack[s]
  /\ GetsNothing(s)
  /\ \A k \in loggers[s] :
       (\A o \in Range(active_sessions) : AdmittedBy(o, l, f) => k \notin loggers[o]) =>
         emitted'[k] = emitted[k]

\* C15 as stated: a record for F in an active Session S that has no
\* threshold for F completes without failure and leaves S's History, open
\* Groups and sinks untouched.
C15_MissingThresholdAsStated ==
  [][\A t \in Threads, f \in FuncIds, l \in RecordLevel, d \in RecData :
       RecordStep(t, f, l, d) =>
         \A s \in Range(active_sessions) :
           levels[s][f] = NoLevel => (exc'[t] = None /\ Untouched(s, l, f))]_vars

\* C15 (amended): such a record leaves S's History, open Groups and sinks
\* untouched, and it fails only when some active Session that admits the
\* record has no open Group.
C15_MissingThreshold ==
  [][\A t \in Threads, f \in FuncIds, l \in RecordLevel, d \in RecData :
       RecordStep(t, f, l, d) =>
         \A s \in Range(active_sessions) :
           levels[s][f] = NoLevel =>
             /\ Untouched(s, l, f)
             /\ exc'[t] # None =>
                  \E o \in Range(active_sessions) :
                    AdmittedBy(o, l, f) /\ group_stack[o] = <<>>]_vars

\* C15 witness: inside one call, s2 admitted a record and holds its Entry
\* while s1, active with an open Group and a logger but no threshold, holds
\* nothing and its logger got nothing
C15_Witness ==
  /\ active_sessions = <<"s1", "s2">>
  /\ InBody(MainThread)
  /\ levels["s1"][CurrentCall(MainThread).who] = NoLevel
  /\ group_stack["s1"] # <<>> /\ group_stack["s2"] # <<>>
  /\ heap[Last(group_stack["s1"])].entries = <<>>
  /\ heap[Last(group_stack["s2"])].entries # <<>>
  /\ loggers["s1"] = {"L2"} /\ loggers["s2"] = {}
  /\ emitted["L2"] = <<>>
  /\ exc[MainThread] = None

\* Session s has no open Group for f: its stack is empty or the Group on
\* top belongs to another identity
NoOpenGroupFor(s, f) ==
  group_stack[s] = <<>> \/ heap[Last(group_stack[s])].func_id # f

\* C16: an admitted record on F's handle made when an active Session has no
\* open Group for F ends in a failure and adds no Entry to any Group; it is
\* never silently dropped or appended to another function's Group.
C16_ViolationSignaled ==
  [][\A t \in Threads, f \in FuncIds, l \in RecordLevel, d \in RecData :
       (/\ RecordStep(t, f, l, d)
        /\ \E s \in Range(active_sessions) : AdmittedBy(s, l, f) /\ NoOpenGroupFor(s, f)) =>
         exc'[t] # None /\ heap' = heap]_vars

\* Some Session in the active list has a threshold th for f with l >= th
SomeSessionAdmits(l, f) ==
  \E i \in 1..Len(active_sessions) :
    /\ levels[active_sessions[i]][f] \in RecordLevel
    /\ l >= levels[active_sessions[i]][f]

\* C17: enabled(level) on F's handle returns true iff at least one Session
\* in the active list has a threshold th for F with level >= th; it returns
\* false when the active list is empty; whenever it would return false, a
\* record at that level in the same state adds no Entry to any Session; the
\* query changes no state.
C17_EnabledQuery ==
  [][\A t \in Threads, f \in FuncIds, l \in RecordLevel :
       /\ Enabled(t, f, l) =>
            /\ answer'.value = SomeSessionAdmits(l, f)
            /\ active_sessions = <<>> => answer'.value = FALSE
            /\ UNCHANGED <<active_sessions, levels, history, group_stack, heap,
                           group_id, frames, exc, result, recorders, created,
                           pending, loggers, emitted>>
       /\ \A d \in RecData :
            (RecordStep(t, f, l, d) /\ ~SomeSessionAdmits(l, f)) =>
              heap' = heap /\ history' = history]_vars

\* C17 witness: the query answered true with two Sessions active of which
\* only the second admits the level
C17_Witness ==
  /\ answer.func \in FuncIds
  /\ answer.value = TRUE
  /\ active_sessions = <<"s1", "s2">>
  /\ ~AdmittedBy("s1", answer.level, answer.func)
  /\ AdmittedBy("s2", answer.level, answer.func)

\* The Entries of the Group on top of s's stack
OpenEntries(s) == heap[Last(group_stack[s])].entries

\* The level-change scenario, n operations done: the DEBUG record made under
\* threshold INFO is not admitted, the one made under DEBUG is, and the
\* Entry stays when the threshold goes back to INFO
LevelChangeExpected(s, f, n) ==
  LET y == RecordEntry(DEBUG, f, <<"y", 2>>)
  IN /\ n \in 2..5 => OpenEntries(s) = <<>>
     /\ n \in 6..8 => OpenEntries(s) = <<y>>
     /\ n \in 9..10 =>
          /\ Len(history[s]) = 1
          /\ heap[history[s][1]].entries = <<y>>
     /\ exc[MainThread] = None

\* C18: set_level is accepted whether the Session is active or not and
\* whether or not a call is in flight; it changes the one threshold and
\* nothing else, Entries recorded before it stay as they are, and every
\* record after it is admitted against the new threshold, also inside an
\* invocation that started before it.
C18_SetLevelTakesEffect ==
  /\ [][\A t \in Threads, s \in Sessions, f \in FuncIds, l \in RecordLevel :
          SetLevel(t, s, f, l) =>
            /\ levels' = [levels EXCEPT ![s][f] = l]
            /\ UNCHANGED <<active_sessions, history, group_stack, heap, exc, emitted>>]_vars
  /\ [](\A s \in Sessions, f \in FuncIds :
          Running(LevelChangeScript(s, f)) =>
            LevelChangeExpected(s, f, steps - (Len(script) - 10)))

\* C18 witness: the level-change scenario has run to its end
C18_Witness ==
  \E s \in Sessions, f \in FuncIds :
    /\ Running(LevelChangeScript(s, f))
    /\ steps = Len(script)
    /\ Len(history[s]) = 1
    /\ Len(heap[history[s][1]].entries) = 1

\* Number of Entries this step appends to the Group g
Appended(g) == Len(heap'[g].entries) - Len(heap[g].entries)

\* The messages this step logs to k
NewMessages(k) == SubSeq(emitted'[k], Len(emitted[k]) + 1, Len(emitted'[k]))

\* The Group g belongs to a Session that k is attached to
AttachedToOwner(k, g) == \E s \in Sessions : g \in GroupsOf(s) /\ k \in loggers[s]

\* C19: for every admitted Entry in Session S, each sink attached to S whose
\* minimum-severity filter accepts the Entry's level receives exactly one
\* message, tagged with the id of the Group the Entry was appended to;
\* sinks whose filter rejects the level and sinks attached only to other
\* Sessions receive none; attaching a sink again changes nothing.
C19_SinkDispatch ==
  [][\A t \in Threads, f \in FuncIds, l \in RecordLevel, d \in RecData :
       RecordStep(t, f, l, d) =>
         \A k \in Loggers :
           /\ Len(emitted'[k]) >= Len(emitted[k])
           /\ SubSeq(emitted'[k], 1, Len(emitted[k])) = emitted[k]
           /\ \A g \in 1..Len(heap) :
                Cardinality({i \in 1..Len(NewMessages(k)) :
                               NewMessages(k)[i] =
                                 [level |-> l, func |-> f, data |-> d,
                                  record_group |-> heap[g].id]})
                  = IF AttachedToOwner(k, g) /\ l >= LoggerLevel[k]
                    THEN Appended(g) ELSE 0
           /\ \A i \in 1..Len(NewMessages(k)) :
                \E g \in 1..Len(heap) :
                  Appended(g) > 0 /\ NewMessages(k)[i].record_group = heap[g].id]_vars

\* C19 witness: s1 has both loggers, s2 has L1 and is not active; one DEBUG
\* Entry was admitted in s1: L1 got one message tagged with the Group's id,
\* L2, which accepts INFO and above, got none
C19_Witness ==
  /\ loggers["s1"] = Loggers /\ loggers["s2"] = {"L1"}
  /\ active_sessions = <<"s1">>
  /\ group_stack["s1"] # <<>>
  /\ Len(OpenEntries("s1")) = 1
  /\ OpenEntries("s1")[1].level = DEBUG
  /\ Len(emitted["L1"]) = 1
  /\ emitted["L1"][1].record_group = heap[Last(group_stack["s1"])].id
  /\ emitted["L2"] = <<>>

\* C20: any two distinct Groups ever created, in the same Session or in
\* different Sessions, by the same thread or by different threads, have
\* different ids.
C20_UniqueGroupIds ==
  \A g \in 1..Len(heap), h \in 1..Len(heap) : g # h => heap[g].id # heap[h].id

\* C20 witness: one call opened a Group in s1 and a Group in s2, and the
\* other thread has tried to call an instrumented function too
C20_Witness ==
  /\ \E g \in Range(history["s1"]), h \in Range(history["s2"]) : heap[g].id # heap[h].id
  /\ result["worker"].own = "AttributeError"

\* C21: a traversal of get_history(g) that finds the History as it was when
\* get_history was called yields, once it has ended, exactly the Groups of
\* that History whose identity is g.id, in History order; no traversal
\* ever yields a Group of another identity; every call has a traversal of
\* its own, whatever the other traversals have consumed.
C21_HistoryLookup ==
  \A v \in 1..Len(views) :
    LET it == views[v]
    IN /\ \A i \in 1..Len(it.out) : heap[it.out[i]].func_id = it.func
       /\ it.done /\ it.stable =>
            it.out = SelectSeq(it.base, LAMBDA g : heap[g].func_id = it.func)

\* Two traversals of the same lookup have ended, each yielded both Groups
\* of the identity and skipped the Group of the other identity
C21_Witness ==
  /\ Len(views) = 2
  /\ views[1].session = views[2].session
  /\ views[1].func = views[2].func
  /\ \A v \in 1..2 : views[v].done /\ views[v].stable /\ Len(views[v].out) = 2
  /\ Len(views[1].base) = 3
  /\ views[2].base = views[1].base

\* C22: a call of an instrumented function made on any thread while a
\* Session is active opens a Group, which has a Group id, and the call
\* enters its body without failure.
C22_CallFromAnyThread ==
  [][\A t \in Threads :
       (CallStep(t) /\ exc[t] = None /\ active_sessions # <<>>) =>
         /\ exc'[t] = None
         /\ Len(heap') > Len(heap)
         /\ \A g \in (Len(heap) + 1)..Len(heap') : heap'[g].id \in Nat]_vars

\* n is odd
Odd(n) == \E k \in (0 - MaxOrbitals)..MaxOrbitals : n = 2 * k + 1

\* C23: constructing TrotterSingletUCCSD raises ValueError when n_fermions
\* is odd and when n_spin_orbitals - n_fermions <= 0, and builds no circuit
\* then; for even n_fermions with at least one virtual orbital it raises
\* neither error.
C23_InvalidInputRejected ==
  (input.call = "TrotterSingletUCCSD" /\ output.kind # None) =>
    IF Odd(input.n_fermions) \/ input.n_spin_orbitals - input.n_fermions <= 0
    THEN output.kind = "ValueError" /\ output.built = None
    ELSE output.kind # "ValueError" /\ output.built # None

\* TrotterSingletUCCSD(4, 4) was rejected for its lack of virtual orbitals
C23_Witness ==
  /\ input.call = "TrotterSingletUCCSD"
  /\ input.n_spin_orbitals = 4
  /\ input.n_fermions = 4
  /\ output.kind = "ValueError"
  /\ output.built = None

\* C24: for a gate built as G(a, b) with G one of CNOT, CZ, SWAP,
\* convert_gate_f32 calls the scaluq counterpart with exactly (a, b), and
\* for TOFFOLI built as (a, b, c) with exactly (a, b, c).
C24_QubitArgumentsKept ==
  (/\ input.call = "convert_gate_f32"
   /\ input.factory \in {"CNOT", "CZ", "SWAP", "TOFFOLI"}
   /\ output.kind # None) =>
     /\ output.func = GateScaluqF32(input.factory)
     /\ output.args = input.qubits

\* C25: quantum_state called with a vector and with bits, whatever the
\* value of bits, raises ValueError.
C25_VectorAndBitsRejected ==
  (/\ input.call = "quantum_state"
   /\ input.vector # None
   /\ input.bits # <<>>
   /\ output.kind # None) =>
     output.kind = "ValueError"

\* Number of Groups the call with frame fr pushed in session s
PushedIn(fr, s) == Cardinality({i \in 1..Len(fr.pushed) : fr.pushed[i][1] = s})

\* C26: on entry the wrapper pushes one new empty Group of the identity
\* onto each Session of the active list, in list order; on exit it pops
\* from exactly the Sessions that had a Group pushed on entry for this
\* call, one pop for each push, whatever happened to the active list
\* while the body ran.
C26_OpenCloseMatched ==
  [][\A t \in Threads :
       /\ (CallStep(t) /\ exc'[t] = None) =>
            LET fr == Last(frames'[t])
            IN /\ [i \in 1..Len(fr.pushed) |-> fr.pushed[i][1]] = active_sessions
               /\ \A i \in 1..Len(fr.pushed) :
                    /\ fr.pushed[i][2] = Len(heap) + i
                    /\ heap'[fr.pushed[i][2]].entries = <<>>
                    /\ heap'[fr.pushed[i][2]].func_id = fr.who
                    /\ fr.pushed[i][2] \in Range(group_stack'[fr.pushed[i][1]])
                    /\ fr.pushed[i][2] \notin Range(group_stack[fr.pushed[i][1]])
       /\ (\E v \in RetVals : CallReturn(t, v)) =>
            /\ exc'[t] = None
            /\ \A s \in Sessions :
                 Len(group_stack'[s]) = Len(group_stack[s]) - PushedIn(Top(t), s)]_vars

\* C27: every invocation of an instrumented function has a Group of its
\* own, and a record that an invocation makes after a call it made has
\* returned is appended to the invocation's own Group.
C27_GroupingSurvivesReturn ==
  [][\A t \in Threads :
       /\ (CallStep(t) /\ exc'[t] = None) =>
            \A g \in OpenedBy(Last(frames'[t])) : g > Len(heap)
       /\ \A l \in RecordLevel, d \in RecData :
            (/\ InBody(t)
             /\ result[t].body[1] = "return"
             /\ RecordStep(t, CurrentCall(t).who, l, d)) =>
               \A s \in Range(active_sessions) :
                 (/\ AdmittedBy(s, l, CurrentCall(t).who)
                  /\ Opened(CurrentCall(t), s) # {}
                  /\ Opened(CurrentCall(t), s) \subseteq Range(group_stack[s])) =>
                    \E g \in Opened(CurrentCall(t), s) :
                      Extended(heap[g].entries, heap'[g].entries,
                               RecordEntry(l, CurrentCall(t).who, d))]_vars

\* C28: while control is in no activation block of Session S, no step (an
\* instrumented call, its return, a record) changes S's History, S's stack
\* of open Groups or a Group of S, or sends a message to a sink that only
\* S has.
C28_InactiveSessionUntouched ==
  [][\A s \in Sessions :
       (BlocksEntered(s) = 0 /\ BlocksEntered(s)' = 0) =>
         /\ history'[s] = history[s]
         /\ group_stack'[s] = group_stack[s]
         /\ GetsNothing(s)
         /\ \A k \in loggers[s] :
              (\A o \in Sessions \ {s} : k \notin loggers[o]) => emitted'[k] = emitted[k]]_vars

\* Number of Entries this step appends to the open Group of session s
EntriesAdded(s) ==
  IF group_stack[s] = <<>>
  THEN 0
  ELSE Len(heap'[Last(group_stack[s])].entries) - Len(heap[Last(group_stack[s])].entries)

\* A sink attached to session s accepts level l
SomeSinkAccepts(s, l) == \E k \in loggers[s] : l >= LoggerLevel[k]

\* C29: for every Entry a record call adds to a Session, the message is
\* formatted once when at least one sink of the Session accepts the
\* Entry's level, whatever the number of accepting sinks, and every
\* message sent carries that text; it is not formatted when the Session
\* has no sink or none of its sinks accepts the level.
C29_FormatOnce ==
  [][\A t \in Threads, f \in FuncIds, l \in RecordLevel, d \in RecData :
       RecordStep(t, f, l, d) =>
         /\ \A s \in Sessions :
              formats'[s] - formats[s] = IF SomeSinkAccepts(s, l) THEN EntriesAdded(s) ELSE 0
         /\ \A k \in Loggers : \A i \in (Len(emitted[k]) + 1)..Len(emitted'[k]) :
              emitted'[k][i].func = f /\ emitted'[k][i].data = d]_vars

\* One Entry of s1, accepted by both of its sinks, was formatted once
C29_Witness ==
  /\ loggers["s1"] = {"L1", "L2"}
  /\ loggers["s2"] = {}
  /\ Len(emitted["L1"]) = 1
  /\ Len(emitted["L2"]) = 1
  /\ formats["s1"] = 1
  /\ \E g \in Range(group_stack["s1"]) : Len(heap[g].entries) = 1

\* C30: the Entries of a Group, once in it, stay in it at their positions:
\* a step leaves the Entries of every Group as they are, or is a record
\* call that appends its Entry after them; no Group ever disappears or
\* changes its identity or id.
C30_GroupAppendOnly ==
  [][\A g \in 1..Len(heap) :
       /\ g <= Len(heap')
       /\ heap'[g].func_id = heap[g].func_id
       /\ heap'[g].id = heap[g].id
       /\ \/ heap'[g].entries = heap[g].entries
          \/ \E t \in Threads, f \in FuncIds, l \in RecordLevel, d \in RecData :
               /\ RecordStep(t, f, l, d)
               /\ Extended(heap[g].entries, heap'[g].entries, RecordEntry(l, f, d))]_vars

\* A Group holds two different Entries
C30_Witness ==
  \E g \in 1..Len(heap) :
    /\ Len(heap[g].entries) = 2
    /\ heap[g].entries[1] # heap[g].entries[2]

\* C31: no Group is on the stack or in the History of two different
\* Sessions; the Groups one call opens are pairwise different objects; an
\* Entry is appended only to the open Group of a Session that admits it.
C31_GroupOfOneSession ==
  [][/\ \A a \in Sessions, b \in Sessions :
          a # b => GroupsOf(a)' \cap GroupsOf(b)' = {}
     /\ \A t \in Threads :
          (CallStep(t) /\ exc'[t] = None) =>
            LET p == Last(frames'[t]).pushed
            IN \A i \in 1..Len(p), j \in 1..Len(p) : i # j => p[i][2] # p[j][2]
     /\ \A t \in Threads, f \in FuncIds, l \in RecordLevel, d \in RecData :
          RecordStep(t, f, l, d) =>
            \A g \in 1..Len(heap) :
              heap'[g] # heap[g] =>
                \E s \in Range(active_sessions) :
                  /\ AdmittedBy(s, l, f)
                  /\ group_stack[s] # <<>>
                  /\ g = Last(group_stack[s])]_vars

\* One call opened a Group in each of two Sessions and each Group got the
\* Entry of one record
C31_Witness ==
  \E t \in Threads :
    /\ InCall(t)
    /\ Len(Top(t).pushed) = 2
    /\ Top(t).pushed[1][1] # Top(t).pushed[2][1]
    /\ Top(t).pushed[1][2] # Top(t).pushed[2][2]
    /\ \A i \in 1..2 : Len(heap[Top(t).pushed[i][2]].entries) = 1

\* Number of calls in flight that were entered while session s was active
InFlightWhileActive(s) ==
  Cardinality({i \in 1..Len(frames[MainThread]) :
                 /\ frames[MainThread][i].kind = "call"
                 /\ s \in Range(frames[MainThread][i].act0)})

\* Session s was in the active list at most once whenever a block or call
\* in flight was entered, and is so now
ActivatedOnce(s) ==
  /\ Count(active_sessions, s) <= 1
  /\ \A i \in 1..Len(frames[MainThread]) : Count(frames[MainThread][i].act0, s) <= 1

PositionIn(h, g) == CHOOSE i \in 1..Len(h) : h[i] = g

\* C33: the Groups of a History are in the order in which their calls were
\* entered (Groups are created at call entry, so in the order of creation),
\* whatever the order of the returns, and two Groups that stay in a
\* History keep their relative order in every step.
C33_HistoryOrder ==
  [][\A s \in Sessions :
       /\ \A i \in 1..Len(history'[s]), j \in 1..Len(history'[s]) :
            i < j => history'[s][i] < history'[s][j]
       /\ \A g \in Range(history[s]) \cap Range(history'[s]) :
            \A h \in Range(history[s]) \cap Range(history'[s]) :
              PositionIn(history[s], g) < PositionIn(history[s], h) =>
                PositionIn(history'[s], g) < PositionIn(history'[s], h)]_vars

\* Outer A and inner B both recorded and B returned before A: A's Group
\* precedes B's Group in the History
C33_Witness ==
  /\ script = NestedReturnScript("s1", "A", "B", <<OpRecord(INFO, <<"x", 1>>)>>, FALSE)
  /\ steps = Len(script)
  /\ Len(history["s1"]) = 2
  /\ heap[history["s1"][1]].func_id = "A"
  /\ heap[history["s1"][2]].func_id = "B"
  /\ heap[history["s1"][1]].entries # <<>>
  /\ heap[history["s1"][2]].entries # <<>>

\* C34: when every record is made on the handle of the function whose
\* body is running, every Entry in every Group carries the identity of
\* the Group that contains it.
C34_IdentityConsistency ==
  \A g \in 1..Len(heap) : \A i \in 1..Len(heap[g].entries) :
    heap[g].entries[i].func_id = heap[g].func_id

\* The scenario of C35 with sessions a (threshold DEBUG) and b (threshold
\* INFO), started in either order, has returned from its call
AfterMixedFanOut(a, b, f, d) ==
  /\ a # b
  /\ \/ Running(FanOutScript(a, b, DEBUG, INFO, f, DEBUG, d))
     \/ Running(FanOutScript(b, a, INFO, DEBUG, f, DEBUG, d))
  /\ steps >= Len(script) - 2

\* C35: with S1 (threshold DEBUG for F) and S2 (threshold INFO for F) both
\* active, a call of F that records once at DEBUG leaves one Group with one
\* Entry in S1's History and S2's History as it was; at the return of any
\* call, whether a Session keeps or prunes its Group depends on that
\* Session's Group alone, and a record adds nothing to a Session that does
\* not admit it.
C35_AdmissionPerSession ==
  [][/\ \A a \in Sessions, b \in Sessions, f \in FuncIds, d \in RecData :
          AfterMixedFanOut(a, b, f, d)' =>
            /\ Len(history'[a]) = 1
            /\ heap'[history'[a][1]].entries = <<RecordEntry(DEBUG, f, d)>>
            /\ history'[b] = <<>>
     /\ \A t \in Threads, v \in RetVals :
          (CallReturn(t, v) /\ exc'[t] = None) =>
            \A s \in Sessions :
              /\ Count(active_sessions, s) = 0 => history'[s] = history[s]
              /\ (Count(active_sessions, s) = 1 /\ group_stack[s] # <<>>) =>
                   history'[s] = IF heap[Last(group_stack[s])].entries = <<>>
                                 THEN Front(history[s])
                                 ELSE history[s]
     /\ \A t \in Threads, f \in FuncIds, l \in RecordLevel, d \in RecData :
          RecordStep(t, f, l, d) =>
            \A s \in Sessions : ~AdmittedBy(s, l, f) => GetsNothing(s)]_vars

\* The call has returned: the DEBUG Session holds one Group with one Entry,
\* the INFO Session holds nothing
C35_Witness ==
  \E a \in Sessions, b \in Sessions, f \in FuncIds, d \in RecData :
    /\ AfterMixedFanOut(a, b, f, d)
    /\ steps = Len(script) - 2
    /\ Len(history[a]) = 1
    /\ Len(heap[history[a][1]].entries) = 1
    /\ history[b] = <<>>
    /\ Len(heap) = 2

\* Number of Entries in the Groups gs
RECURSIVE EntriesIn(_)
EntriesIn(gs) ==
  IF gs = {} THEN 0
  ELSE LET g == CHOOSE x \in gs : TRUE
       IN Len(heap[g].entries) + EntriesIn(gs \ {g})

\* Session s admits the record and the record call completes
AdmitsCompleted(t, s, l, f) ==
  /\ s \in Range(active_sessions)
  /\ AdmittedBy(s, l, f)
  /\ exc'[t] = None

AdmittingTops(l, f) ==
  {Last(group_stack[s]) :
     s \in {x \in Range(active_sessions) : AdmittedBy(x, l, f) /\ group_stack[x] # <<>>}}

\* C37: a record call changes the Entries of the top open Group of
\* admitting active Sessions (and what the sinks got) and nothing else:
\* the active list, all thresholds, every stack of open Groups, every
\* History, the set of Groups and all other Groups stay as they are.
C37_RecordFrame ==
  [][\A t \in Threads, f \in FuncIds, l \in RecordLevel, d \in RecData :
       Record(t, f, l, d) =>
         /\ active_sessions' = active_sessions
         /\ levels' = levels
         /\ group_stack' = group_stack
         /\ history' = history
         /\ Len(heap') = Len(heap)
         /\ \A g \in 1..Len(heap) :
              /\ heap'[g].func_id = heap[g].func_id
              /\ heap'[g].id = heap[g].id
              /\ g \notin AdmittingTops(l, f) => heap'[g] = heap[g]]_vars

\* After a record inside a nested call: the Group of the inner call has the
\* Entry, the open Group of the outer call below it has none
C37_Witness ==
  \E s \in Sessions :
    /\ active_sessions = <<s>>
    /\ Len(group_stack[s]) = 2
    /\ history[s] = group_stack[s]
    /\ heap[group_stack[s][1]].entries = <<>>
    /\ Len(heap[group_stack[s][2]].entries) = 1

\* The sequence p is an initial part of the sequence q
IsPrefix(p, q) == Len(p) <= Len(q) /\ SubSeq(q, 1, Len(p)) = p

\* C38: ending (or starting) an activation block leaves every History,
\* every Group and every threshold as it was; calls made in a later
\* activation of the same Session append their Groups after the Groups
\* retained from the earlier activation.
C38_HistoryOutlivesActivation ==
  [][/\ \A t \in Threads :
          (SessionEnd(t) \/ \E s \in Sessions : SessionStart(t, s)) =>
            history' = history /\ heap' = heap /\ levels' = levels
     /\ \A t \in Threads :
          CallStep(t) => \A s \in Sessions : IsPrefix(history[s], history'[s])
     /\ \A s \in Sessions, f \in FuncIds, g \in FuncIds, d \in RecData :
          (script' = ReactivateScript(s, f, g, d) /\ steps' >= 7) =>
            /\ Len(history'[s]) >= 1
            /\ history'[s][1] = 1
            /\ heap'[1] = [func_id |-> f, entries |-> <<RecordEntry(INFO, f, d)>>, id |-> 0]
            /\ steps' = Len(script') =>
                 /\ Len(history'[s]) = 2
                 /\ heap'[history'[s][2]].func_id = g
                 /\ heap'[history'[s][2]].entries = <<RecordEntry(INFO, g, d)>>]_vars

\* Both activations have ended: the Group of the first activation is
\* followed by the Group of the second
C38_Witness ==
  \E s \in Sessions, f \in FuncIds, g \in FuncIds, d \in RecData :
    /\ script = ReactivateScript(s, f, g, d)
    /\ steps = Len(script)
    /\ active_sessions = <<>>
    /\ history[s] = <<1, 2>>
    /\ heap[1].entries # <<>>
    /\ heap[2].entries # <<>>
    /\ levels[s][f] = INFO

\* C39: set_level(level, F) on Session S sets S's threshold for F to level
\* whatever it was before and changes no threshold of another identity or
\* of another Session; a record is admitted by a Session according to the
\* threshold the Session holds at that moment, so the later of two
\* set_level calls alone decides.
C39_ThresholdIsolation ==
  [][/\ \A t \in Threads, s \in Sessions, f \in FuncIds, l \in RecordLevel :
          SetLevel(t, s, f, l) =>
            /\ levels'[s][f] = l
            /\ \A g \in FuncIds \ {f} : levels'[s][g] = levels[s][g]
            /\ \A r \in Sessions \ {s} : levels'[r] = levels[r]
     /\ \A t \in Threads, f \in FuncIds, l \in RecordLevel, d \in RecData :
          (exc'[t] = None /\ levels' = levels /\ group_stack' = group_stack
             /\ Record(t, f, l, d)) =>
            \A s \in Sessions :
              (Count(active_sessions, s) = 1 /\ group_stack[s] # <<>>) =>
                Appended(Last(group_stack[s])) =
                  IF levels[s][f] # NoLevel /\ l >= levels[s][f] THEN 1 ELSE 0]_vars

\* The threshold of s for f was set to INFO and then to DEBUG, the other
\* Session's threshold and the other identity's threshold were never set,
\* and the DEBUG record made after the second call has been admitted
C39_Witness ==
  \E s \in Sessions, f \in FuncIds :
    /\ Running(LevelChangeScript(s, f))
    /\ steps = Len(script) - 4
    /\ levels[s][f] = DEBUG
    /\ \A g \in FuncIds \ {f} : levels[s][g] = NoLevel
    /\ \A r \in Sessions \ {s} : levels[r][f] = NoLevel
    /\ OpenEntries(s) = <<RecordEntry(DEBUG, f, <<"y", 2>>)>>

\* C40: convert_gate_f32 either returns a scaluq gate or raises
\* ValueError, and raises only for an unknown gate name or a parametric
\* gate; for no gate, and not for Pauli and PauliRotation, does it return
\* without a gate.
C40_ConvertTotal ==
  (input.call = "convert_gate_f32" /\ output.kind # None) =>
    /\ output.kind \in {"call", "ValueError"}
    /\ output.kind = "ValueError" <=> input.factory \in {"ParametricRX", "QuantumGate"}
    /\ input.factory \in {"Pauli", "PauliRotation"} =>
         output.kind = "call" /\ output.func = input.factory
====
